---------------------------- MODULE Spec2Model ----------------------------
(***************************************************************************)
(* State machine of the OBS tally light firmware, M5StickC PLUS edition    *)
(* (src/ESP32/M5StickCPlus/src/main.cpp): the connectivity session         *)
(* (registration, heartbeat, link loss), the tally state written by the    *)
(* /api/tally push and by the heartbeat response, and the main loop that   *)
(* schedules them.                                                         *)
(*                                                                         *)
(* The firmware is single threaded.  setup() is one atomic step.  One      *)
(* iteration of loop() is a run of three steps that nothing interleaves    *)
(* with: the part before webServer.handleClient(), the web handler that    *)
(* handleClient() calls, and the part after it.  What the outside world    *)
(* does between two iterations (WiFi going up or down, time passing) is a  *)
(* step of its own.                                                        *)
(* The firmware's globals and function statics are the fields of the       *)
(* record dev.  Every C++ function is an operator from the record before   *)
(* the call to the record after it, so a handler is the composition of     *)
(* the calls it makes, in the order of the source.                         *)
(*                                                                         *)
(* millis() is the variable now, in milliseconds.  It is read once per     *)
(* iteration and advances in steps of TickMs.  WiFi.status() is the        *)
(* variable wifi; it is sampled at the start of an iteration and once      *)
(* more after handleClient().                                              *)
(***************************************************************************)
EXTENDS Integers, Sequences, FiniteSets, TLC

VARIABLES
    dev,    \* globals and statics of the firmware, the flash store, the step's log
    wifi,   \* WiFi.status() == WL_CONNECTED
    now,    \* millis()
    pc      \* "boot": setup() is due; "run": between two iterations of loop();
            \* "client": at webServer.handleClient(); "tail": after it

vars == <<dev, wifi, now, pc>>

----------------------------------------------------------------------------
(* Bounds of the model *)

\* Granularity of the clock: time passes in steps of TickMs milliseconds.
TickMs == 25000
\* The clock stops at MaxTicks * TickMs.
MaxTicks == 3

MaxTime == MaxTicks * TickMs
\* The battery world: a coarser clock, past the uptime enterDeepSleep() asks for
PowerTickMs == 150000
MaxPowerTicks == 3
\* The button world: the clock stops here
MaxClickTime == 12000
\* The button world with link losses: the clock stops here
MaxCadenceTime == 4000
\* The power governor: the clock advances in steps of GovTickMs, MaxGovTicks
\* times
GovTickMs == 8000
MaxGovTicks == 6
\* The session for ever: the clock advances in steps of LiveTickMs up to
\* LiveMaxTicks * LiveTickMs and is moved back from there (see SinceBoot)
LiveTickMs == 35000
LiveMaxTicks == 2
\* The LED: the time between two steps of the clock, and how many
LedTickMs == 300
MaxLedTicks == 3
\* The battery gauge: the clock advances in steps of BatteryTickMs,
\* MaxBatteryTicks times
BatteryTickMs == 40000
MaxBatteryTicks == 1

----------------------------------------------------------------------------
(* Program constants *)

HEARTBEAT_INTERVAL == 30000
HEARTBEAT_INTERVAL_POWER_SAVE == 60000
ANNOUNCE_INTERVAL == 30000
FETCH_MIN_INTERVAL == 10000
FALLBACK_MIN_UPTIME == 60000
FALLBACK_RETRY_INTERVAL == 30000
DEFAULT_SERVER_PORT == 3005
HTTP_OK == 200
HTTP_NOT_FOUND == 404
HTTP_BAD_REQUEST == 400
HTTP_SEE_OTHER == 303
HTTP_SERVER_ERROR == 500
DOUBLE_CLICK_TIME == 400
LONG_PRESS_TIME == 1500
\* delay() of the double click, of toggleLED() and of the link-down branch
CHECK_DELAY == 500
TOGGLE_DELAY == 1000
LINK_DOWN_DELAY == 100
\* showNetworkInfo(): how long the page stays, and the pause between polls
INFO_TIME == 5000
INFO_POLL == 50
LOOP_DELAY == 750
DEEP_SLEEP_MIN_UPTIME == 300000
DEEP_SLEEP_MIN_BATTERY == 5
POWER_STATE_INTERVAL == 15000
BATTERY_UPDATE_INTERVAL == 45000
LOW_BATTERY_ENTER == 15
LOW_BATTERY_EXIT == 40
FALLBACK_PERCENT == 50
JITTER_LIMIT == 20
FULL_CHARGE_HOLD == 30000
ACTIVITY_MIN_INTERVAL == 10000
BTN_ACTIVITY_INTERVAL == 5000
INIT_POWER_DELAY == 1100
INITIAL_AWAKE_PERIOD == 600000
INITIAL_ACTIVITY_INTERVAL == 30000
POWER_UPDATE_INTERVAL == 5000
STABILITY_CHECK_INTERVAL == 30000
LED_BLINK_INTERVAL == 500
LED_UPDATE_INTERVAL == 200

CONFIG_VERSION == "2.0"
\* "http://" + ip + ":" + String(port); the empty string is NoUrl
Url(ip, port) == [ip |-> ip, port |-> port]
NoUrl == Url("", 0)
DEFAULT_SERVER_URL == Url("192.168.0.91", DEFAULT_SERVER_PORT)
DEFAULT_DEVICE_NAME == "OBS-Tally"
DEFAULT_HOSTNAME == "obs-tally-m5stick"

----------------------------------------------------------------------------
(* JSON values, as ArduinoJson sees them *)

Absent == [t |-> "absent"]
JStr(x) == [t |-> "str", s |-> x]
JBool(x) == [t |-> "bool", b |-> x]
\* An object; m is the value of the one member the firmware reads from it
\* ("active" of recordingStatus / streamingStatus, "status" of status).
JObj(x) == [t |-> "obj", m |-> x]

\* variant == "text": true only of a string with that content
JEq(v, text) == v.t = "str" /\ v.s = text

\* variant | dflt, for a bool default: the value if the variant is a bool
JOrBool(v, dflt) == IF v.t = "bool" THEN v.b ELSE dflt

\* if (variant): conversion to bool; null is false, a bool is itself,
\* any string, even the empty one, and any object is true
JTruthy(v) == CASE v.t = "absent" -> FALSE
                [] v.t = "bool" -> v.b
                [] OTHER -> TRUE

\* String x = variant: the content of a string
JAsString(v) == IF v.t = "str" THEN v.s ELSE ""

\* A JSON document of the shapes the server sends.
Doc(st, rec, recSt, str, strSt, obs, name, src) ==
    [status |-> st, recording |-> rec, recordingStatus |-> recSt,
     streaming |-> str, streamingStatus |-> strSt, obsConnected |-> obs,
     deviceName |-> name, assignedSource |-> src]

\* A document that carries a status and nothing else.
StatusDoc(status) ==
    Doc(status, Absent, Absent, Absent, Absent, Absent, Absent, Absent)

\* A request or response body: none, text that is not JSON, or a document.
NoBody == [t |-> "none"]
BadJson == [t |-> "invalid"]
JsonBody(doc) == [t |-> "json", doc |-> doc]

\* The form of POST /config; port is toInt() of the field, 0 if it is
\* missing or no number; led is hasArg("led_disabled").
Form(ip, name, port, source, led) ==
    [server_ip |-> ip, device_name |-> name, server_port |-> port,
     assigned_source |-> source, led_disabled |-> led]

\* A request to the web server of the device, or none waiting
NoRequest == [kind |-> "none"]
TallyPush(body) == [kind |-> "tally", body |-> body]
ConfigPost(form) == [kind |-> "config", form |-> form]
GetStatus == [kind |-> "status"]
GetDeviceInfo == [kind |-> "device-info"]

\* No JSON document sent in answer to a request
NoResponse == [kind |-> "none"]
GetReset == [kind |-> "reset"]

\* A reading of the AXP192 gauge: M5.Axp.GetBatVoltage() in millivolts
\* (batteryVoltage * 1000) and M5.Axp.GetBatChargeCurrent() in mA
Reading(mv, ma) == [mv |-> mv, ma |-> ma]
NoReading == Reading(0, 0)

----------------------------------------------------------------------------
(* The flash store (Preferences, namespace "obs-tally") *)

EmptyPrefs == [k \in {} |-> ""]

PrefGet(p, key, dflt) == IF key \in DOMAIN p THEN p[key] ELSE dflt

\* The store as saveConfig writes it for the given values.
StoredConfig(ip, port, name, source, host, led) ==
    [version |-> CONFIG_VERSION, server_ip |-> ip, server_port |-> port,
     device_name |-> name, assigned_source |-> source, hostname |-> host,
     led_disabled |-> led]

----------------------------------------------------------------------------
(* The log of a step.  It is not program state: it records what the step   *)
(* sent and which branch it took, so that properties can speak of them.    *)

\* An HTTP request the firmware sent: its kind ("register", "heartbeat"),
\* the code it got (<= 0: transport error), isRegistered before
\* the request, and isRegistered / serverConnected after its response was
\* handled.
Event(kind, code, before, after) ==
    [kind |-> kind, code |-> code,
     regBefore |-> before.isRegistered, validBefore |-> before.validReg,
     regAfter |-> after.isRegistered, connAfter |-> after.serverConnected,
     after404 |-> before.after404]

\* before: the state when the request was sent; after: the state once the
\* response was handled.  The result is after, with the request logged.
Log(before, after, kind, code, t) ==
    [after EXCEPT
       !.sent = Append(@, Event(kind, code, before, after)),
       \* a registration that is still valid: granted with 200, and not
       \* since invalidated by a 404 (or, in the loop, by a link loss)
       !.validReg = IF kind = "register" THEN code = HTTP_OK
                    ELSE IF code = HTTP_NOT_FOUND THEN FALSE ELSE @,
       \* the last request was a heartbeat answered 404
       !.after404 = (kind = "heartbeat" /\ code = HTTP_NOT_FOUND)]

\* A call of sendHeartbeat: whether it could send (WiFi connected and a
\* server URL set), isRegistered at entry, how many requests of each kind
\* the call sent, whether its registration was answered 200, the codes its
\* heartbeats got, and isRegistered / serverConnected when it returned.
Call(before, after, w) ==
    LET mine == SubSeq(after.sent, Len(before.sent) + 1, Len(after.sent)) IN
    [kind |-> "sendHeartbeat",
     canSend |-> (w /\ before.serverURL # NoUrl),
     regBefore |-> before.isRegistered,
     nRegister |-> Cardinality({i \in DOMAIN mine : mine[i].kind = "register"}),
     nHeartbeat |-> Cardinality({i \in DOMAIN mine : mine[i].kind = "heartbeat"}),
     regOk |-> \E i \in DOMAIN mine : mine[i].kind = "register" /\ mine[i].code = HTTP_OK,
     hbCodes |-> {mine[i].code : i \in {j \in DOMAIN mine : mine[j].kind = "heartbeat"}},
     regAfter |-> after.isRegistered,
     connAfter |-> after.serverConnected]

LogCall(before, after, w) == [after EXCEPT !.sent = Append(@, Call(before, after, w))]

\* The link was seen down: the registration is no longer valid, and a
\* failed registration is no longer one "with the link up since".
LogLinkLoss(d) == [d EXCEPT !.validReg = FALSE, !.triggerFailed = FALSE]

\* The heartbeat trigger of loop() fired.  before: the state when it fired;
\* after: the state when its sendHeartbeat returned, the call logged last.
\* triggerFailed: the registration of that call failed, and since then the
\* clock has not advanced and the link has stayed up.
\* retriedNextIteration: the call registered although the trigger of an
\* earlier iteration had left triggerFailed set.
LogTrigger(before, after) ==
    LET c == after.sent[Len(after.sent)] IN
    [after EXCEPT
       !.retriedNextIteration = (before.triggerFailed /\ c.nRegister > 0),
       !.triggerFailed = (c.nRegister > 0 /\ ~c.regOk)]


Path(d, p) == [d EXCEPT !.path = p]

\* A step starts with an empty log.
StartStep(d, op) ==
    [d EXCEPT !.op = op, !.path = "", !.sent = <<>>, !.announced = FALSE,
              !.restored = FALSE, !.addrAtLinkUp = FALSE,
              !.doubleClicked = FALSE, !.retriedNextIteration = FALSE,
              !.singleClicked = FALSE, !.longPressed = FALSE, !.elapsed = 0,
              !.gauge = NoReading, !.newBatteryPercent = -1, !.battery = "",
              !.batteryBefore = -1, !.response = NoResponse]

----------------------------------------------------------------------------
(* Globals at power-up (main.cpp:128-213) and function statics *)

InitDev(prefs) ==
    [deviceName |-> DEFAULT_DEVICE_NAME,
     serverURL |-> DEFAULT_SERVER_URL,
     serverIP |-> "",
     serverPort |-> DEFAULT_SERVER_PORT,
     hostname |-> "",
     assignedSource |-> "",
     isConnected |-> FALSE,
     isRegistered |-> FALSE,
     isRecording |-> FALSE,
     isStreaming |-> FALSE,
     lastHeartbeatTime |-> 0,
     lastAnnounce |-> 0,
     powerSaveMode |-> FALSE,
     isProgram |-> FALSE,
     isPreview |-> FALSE,
     configMode |-> FALSE,
     serverConnected |-> FALSE,
     ledManuallyDisabled |-> FALSE,
     btnB_WaitingForDouble |-> FALSE,
     btnB_IsPressed |-> FALSE,
     btnB_PressStart |-> 0,
     btnB_LongPressHandled |-> FALSE,
     btnB_ClickCount |-> 0,
     btnB_LastPress |-> 0,
     \* M5.BtnB: the level at the last M5.update(), whether that update
     \* changed it, and which press of the user that update saw (for the log)
     BtnB_state |-> FALSE,
     BtnB_changed |-> FALSE,
     BtnB_press |-> 0,
     batteryPercent |-> 100,
     deepSleepEnabled |-> TRUE,
     lowBatteryMode |-> FALSE,
     displayDimmed |-> FALSE,
     lastActivity |-> 0,
     \* statics of updatePowerState(), updateBatteryStatus() and of the
     \* button A block of loop()
     lastPowerStateUpdate |-> 0,
     lastBatteryUpdate |-> 0,
     wasChargingComplete |-> FALSE,
     lastDisconnectTime |-> 0,
     lastBtnActivity |-> 0,
     initialAwakePeriod |-> TRUE,
     lastInitialActivity |-> 0,
     lastPowerUpdate |-> 0,
     \* static of performStabilityCheck()
     lastStabilityCheck |-> 0,
     \* the LED on LED_PIN is lit; statics of updateLED() and of the LED
     \* block of loop()
     led |-> FALSE,
     ledState |-> FALSE,
     lastLEDBlink |-> 0,
     lastLEDUpdate |-> 0,
     \* statics of loop() and fetchCurrentTallyState()
     wasDisconnected |-> FALSE,
     lastRegistrationAttempt |-> 0,
     lastFetch |-> 0,
     \* the flash store
     prefs |-> prefs,
     \* ESP.restart() was called: nothing more runs until the reboot
     restart |-> FALSE,
     \* esp_deep_sleep_start() was called: nothing more runs until the wake-up
     asleep |-> FALSE,
     \* the log of the last step
     op |-> "power-up",
     path |-> "",
     sent |-> <<>>,
     announced |-> FALSE,
     restored |-> FALSE,
     addrAtLinkUp |-> FALSE,
     doubleClicked |-> FALSE,
     singleClicked |-> FALSE,
     longPressed |-> FALSE,
     \* the time the step spent in delay() inside its handlers
     elapsed |-> 0,
     \* the reading the last updateBatteryStatus() of the step took from
     \* the gauge, the percentage it computed from it (-1: none), and what
     \* it did with it: "fault", "rejected", "accepted" ("": not called),
     \* and batteryPercent when it was called
     gauge |-> NoReading,
     newBatteryPercent |-> -1,
     battery |-> "",
     batteryBefore |-> -1,
     \* the press handleButtonB() is dealing with, the press of the last
     \* long press, and whether a long press fired twice for one press
     heldPress |-> 0,
     longOf |-> 0,
     longRepeated |-> FALSE,
     \* what the user does with button B, and how often each action of the
     \* button has fired since
     gesture |-> "none",
     clicks |-> [long |-> 0, single |-> 0, double |-> 0],
     retriedNextIteration |-> FALSE,
     \* the request a handler served and the HTTP code it answered, where
     \* a step records them
     req |-> NoRequest,
     reply |-> 0,
     response |-> NoResponse,
     \* kept from step to step
     validReg |-> FALSE,
     after404 |-> FALSE,
     triggerFailed |-> FALSE]

----------------------------------------------------------------------------
(* Configuration store: loadConfig, saveConfig, factoryReset *)

\* A version check that accepts every store that has a version tag
loadConfigOkAnyTag(d) == PrefGet(d.prefs, "version", "") # ""

\* loadConfig() returns true: the stored version tag is the current one
loadConfigOk(d) == PrefGet(d.prefs, "version", "") = CONFIG_VERSION

loadConfig(d) ==
    IF ~loadConfigOk(d) THEN d
    ELSE [d EXCEPT
            !.serverIP = PrefGet(d.prefs, "server_ip", ""),
            !.serverPort = PrefGet(d.prefs, "server_port", DEFAULT_SERVER_PORT),
            !.deviceName = PrefGet(d.prefs, "device_name", ""),
            !.assignedSource = PrefGet(d.prefs, "assigned_source", ""),
            !.hostname = PrefGet(d.prefs, "hostname", DEFAULT_HOSTNAME),
            !.ledManuallyDisabled = PrefGet(d.prefs, "led_disabled", FALSE)]

\* A saveConfig() that leaves the stored LED preference as it was
saveConfigKeepsLedPreference(d) ==
    [d EXCEPT !.prefs = StoredConfig(d.serverIP, d.serverPort, d.deviceName,
                                     d.assignedSource, d.hostname,
                                     PrefGet(d.prefs, "led_disabled", FALSE))]

saveConfig(d) ==
    [d EXCEPT !.prefs = StoredConfig(d.serverIP, d.serverPort, d.deviceName,
                                     d.assignedSource, d.hostname,
                                     d.ledManuallyDisabled)]

\* ESP.restart(): the step ends here and the device reboots
espRestart(d) == [d EXCEPT !.restart = TRUE]

factoryReset(d) == espRestart([d EXCEPT !.prefs = EmptyPrefs])

----------------------------------------------------------------------------
(* Connectivity session: registerDevice, sendHeartbeat *)

\* A registerDevice() that takes any HTTP answer for an acceptance
registerResultAnyAnswer(d, code) ==
    IF code > 0
    THEN [d EXCEPT !.isRegistered = TRUE,
                   !.isConnected = TRUE,
                   !.serverConnected = TRUE,
                   !.lastHeartbeatTime = 0]
    ELSE [d EXCEPT !.isRegistered = FALSE]

\* registerDevice(), the handling of the response (code <= 0: no response)
registerResult(d, code) ==
    IF code > 0
    THEN IF code = HTTP_OK
         THEN [d EXCEPT !.isRegistered = TRUE,
                        !.isConnected = TRUE,
                        !.serverConnected = TRUE,
                        !.lastHeartbeatTime = 0]
         ELSE [d EXCEPT !.isRegistered = FALSE]
    ELSE [d EXCEPT !.isRegistered = FALSE]

\* w: WiFi.status() == WL_CONNECTED; net.reg: the answer of the server
registerDevice(d, w, t, net) ==
    IF ~w \/ d.serverURL = NoUrl THEN d
    ELSE Log(d, registerResult(d, net.reg), "register", net.reg, t)

\* The status string of a heartbeat response: status.status if status is an
\* object with a string member, else status if it is a string, else "".
heartbeatStatusOf(doc) ==
    IF doc.status.t = "obj" /\ doc.status.m.t = "str" THEN doc.status.m.s
    ELSE IF doc.status.t = "str" THEN doc.status.s
    ELSE ""

\* sendHeartbeat(), newStatus.length() > 0: the tally state of the status
heartbeatTally(d, newStatus) ==
    IF newStatus = "Live" \/ newStatus = "Program"
    THEN [d EXCEPT !.isProgram = TRUE, !.isPreview = FALSE]
    ELSE IF newStatus = "Preview"
    THEN [d EXCEPT !.isProgram = FALSE, !.isPreview = TRUE]
    ELSE [d EXCEPT !.isProgram = FALSE, !.isPreview = FALSE]

\* sendHeartbeat(), assignedSource of the response
heartbeatSource(d, doc) ==
    IF doc.assignedSource.t = "str" /\ doc.assignedSource.s # d.assignedSource
    THEN saveConfig([d EXCEPT !.assignedSource = doc.assignedSource.s])
    ELSE d

\* sendHeartbeat(), recording / streaming of the response
heartbeatFlags(d, doc) ==
    [d EXCEPT !.isRecording = IF doc.recording.t = "bool"
                              THEN JOrBool(doc.recording, FALSE) ELSE @,
              !.isStreaming = IF doc.streaming.t = "bool"
                              THEN JOrBool(doc.streaming, FALSE) ELSE @]

\* sendHeartbeat(), a 200 whose body parsed
heartbeatApply(d, doc) ==
    LET newStatus == heartbeatStatusOf(doc)
        d1 == IF newStatus # "" THEN heartbeatTally(d, newStatus) ELSE d
    IN  heartbeatFlags(heartbeatSource(d1, doc), doc)

\* sendHeartbeat(), HTTP 200
heartbeatOk(d, body) ==
    LET d1 == IF body.t = "json" THEN heartbeatApply(d, body.doc) ELSE d
    IN  [d1 EXCEPT !.isConnected = TRUE, !.serverConnected = TRUE]

\* A 404 branch that forgets to clear the registration
heartbeatNotFoundAsFailure(d) ==
    [d EXCEPT !.isConnected = FALSE, !.serverConnected = FALSE]

\* sendHeartbeat(), HTTP 404: the server does not know the device
heartbeatNotFound(d) ==
    [d EXCEPT !.isRegistered = FALSE, !.isConnected = FALSE,
              !.serverConnected = FALSE]

\* A failure branch that also drops the tally state
heartbeatFailedClearsTally(d) ==
    [d EXCEPT !.isConnected = FALSE, !.serverConnected = FALSE,
              !.isProgram = FALSE, !.isPreview = FALSE]

\* A failure branch that forgets serverConnected
heartbeatFailedKeepsServer(d) == [d EXCEPT !.isConnected = FALSE]

\* sendHeartbeat(), any other HTTP code, or no response
heartbeatFailed(d) ==
    [d EXCEPT !.isConnected = FALSE, !.serverConnected = FALSE]

\* A response handling without the 404 branch
heartbeatResultNo404(d, resp) ==
    IF resp.code > 0
    THEN IF resp.code = HTTP_OK THEN heartbeatOk(d, resp.body)
         ELSE heartbeatFailed(d)
    ELSE heartbeatFailed(d)

\* sendHeartbeat(), the handling of the response
heartbeatResult(d, resp) ==
    IF resp.code > 0
    THEN IF resp.code = HTTP_OK THEN heartbeatOk(d, resp.body)
         ELSE IF resp.code = HTTP_NOT_FOUND THEN heartbeatNotFound(d)
         ELSE heartbeatFailed(d)
    ELSE heartbeatFailed(d)

\* sendHeartbeat(), from the POST to the end
heartbeatRequest(d, t, net) ==
    LET after == heartbeatResult(d, net.hb)
    IN  Log(d, [after EXCEPT !.lastHeartbeatTime = t],
            "heartbeat", net.hb.code, t)

\* A sendHeartbeat() that returns after registering, whatever the outcome
sendHeartbeatDeferred(d, w, t, net) ==
    IF ~w \/ d.serverURL = NoUrl THEN d
    ELSE IF ~d.isRegistered THEN registerDevice(d, w, t, net)
    ELSE heartbeatRequest(d, t, net)

\* A sendHeartbeat() that goes on to the heartbeat although the
\* registration failed
sendHeartbeatUngated(d, w, t, net) ==
    IF ~w \/ d.serverURL = NoUrl THEN d
    ELSE LET d1 == IF ~d.isRegistered THEN registerDevice(d, w, t, net) ELSE d
         IN  heartbeatRequest(d1, t, net)

\* sendHeartbeat(): the checks, the registration gate and the request
sendHeartbeatBody(d, w, t, net) ==
    IF ~w \/ d.serverURL = NoUrl THEN d
    ELSE LET d1 == IF ~d.isRegistered THEN registerDevice(d, w, t, net) ELSE d
         IN  IF ~d1.isRegistered THEN d1
             ELSE heartbeatRequest(d1, t, net)

\* sendHeartbeat(), with the call entered in the log
sendHeartbeat(d, w, t, net) == LogCall(d, sendHeartbeatBody(d, w, t, net), w)

fetchCurrentTallyState(d, w, t, net) ==
    IF t - d.lastFetch < FETCH_MIN_INTERVAL THEN d
    ELSE IF ~w \/ d.serverURL = NoUrl THEN d
    ELSE [sendHeartbeat(d, w, t, net) EXCEPT !.lastFetch = t]

announceDevice(d, t) == [d EXCEPT !.lastAnnounce = t, !.announced = TRUE]

----------------------------------------------------------------------------
(* Web server handlers *)

\* A push handler that raises the flag of the status and leaves the other
tallyStatusKeepsOther(d, doc) ==
    [d EXCEPT !.isPreview = @ \/ JEq(doc.status, "Preview"),
              !.isProgram = @ \/ JEq(doc.status, "Live") \/ JEq(doc.status, "Program")]

\* A push handler that does not know the status "Program"
tallyStatusLiveOnly(d, doc) ==
    [d EXCEPT !.isPreview = JEq(doc.status, "Preview"),
              !.isProgram = JEq(doc.status, "Live")]

\* POST /api/tally: isPreview and isProgram from the status field
tallyStatus(d, doc) ==
    [d EXCEPT !.isPreview = JEq(doc.status, "Preview"),
              !.isProgram = JEq(doc.status, "Live") \/ JEq(doc.status, "Program")]

\* A push handler that reads the bare boolean first
tallyFlagBareFirst(structured, bare) ==
    IF bare.t = "bool" THEN JOrBool(bare, FALSE)
    ELSE IF structured.t = "obj" THEN JOrBool(structured.m, FALSE)
    ELSE FALSE

\* POST /api/tally: the structured form, else the bare boolean, else false
tallyFlag(structured, bare) ==
    IF structured.t = "obj" THEN JOrBool(structured.m, FALSE)
    ELSE IF bare.t = "bool" THEN JOrBool(bare, FALSE)
    ELSE FALSE

tallyFlags(d, doc) ==
    [d EXCEPT !.isRecording = tallyFlag(doc.recordingStatus, doc.recording),
              !.isStreaming = tallyFlag(doc.streamingStatus, doc.streaming)]

\* A push handler that saves the configuration before it takes the new name
tallyNameSaveFirst(d, doc) ==
    IF JTruthy(doc.deviceName)
    THEN [saveConfig(d) EXCEPT !.deviceName = JAsString(doc.deviceName)]
    ELSE d

\* POST /api/tally: the device name, kept in memory only
tallyName(d, doc) ==
    IF JTruthy(doc.deviceName)
    THEN [d EXCEPT !.deviceName = JAsString(doc.deviceName)]
    ELSE d

\* A push handler that takes the new source and does not save it
tallySourceUnsaved(d, doc) ==
    IF JTruthy(doc.assignedSource)
       /\ JAsString(doc.assignedSource) # d.assignedSource
    THEN [d EXCEPT !.assignedSource = JAsString(doc.assignedSource)]
    ELSE d

\* POST /api/tally: the assigned source, saved when it changes
tallySource(d, doc) ==
    IF JTruthy(doc.assignedSource)
       /\ JAsString(doc.assignedSource) # d.assignedSource
    THEN saveConfig([d EXCEPT !.assignedSource = JAsString(doc.assignedSource)])
    ELSE d

\* POST /api/tally with a body that parsed
tallyApply(d, doc) ==
    LET d1 == tallyFlags(tallyStatus(d, doc), doc)
        d2 == [d1 EXCEPT !.serverConnected = JOrBool(doc.obsConnected, TRUE)]
    IN  tallySource(tallyName(d2, doc), doc)

\* A handler that takes a body that did not parse for an empty document
handleTallyLenient(d, body) ==
    IF body.t = "none" THEN d
    ELSE IF body.t = "invalid" THEN tallyApply(d, StatusDoc(Absent))
    ELSE tallyApply(d, body.doc)

\* POST /api/tally
handleTally(d, body) ==
    IF body.t = "none" THEN d
    ELSE IF body.t = "invalid" THEN d
    ELSE tallyApply(d, body.doc)

\* POST /api/tally: the HTTP code of the answer
tallyReply(body) ==
    IF body.t = "none" THEN HTTP_BAD_REQUEST
    ELSE IF body.t = "invalid" THEN HTTP_BAD_REQUEST
    ELSE HTTP_OK

handleConfigPost(d, form) ==
    LET d1 == [d EXCEPT
                 !.serverIP = IF form.server_ip # "" THEN form.server_ip ELSE @,
                 !.deviceName = IF form.device_name # "" THEN form.device_name ELSE @,
                 !.serverPort = IF form.server_port > 0 THEN form.server_port
                                ELSE IF @ = 0 THEN DEFAULT_SERVER_PORT ELSE @,
                 !.assignedSource = IF form.assigned_source # ""
                                    THEN form.assigned_source ELSE @,
                 !.ledManuallyDisabled = form.led_disabled]
    IN  saveConfig(d1)

\* A handleStatus() that takes the request for a sign of the server
handleStatusConnects(d) == [d EXCEPT !.serverConnected = TRUE]

\* handleStatus() and the handler of GET /api/device-info: what they do to
\* the device
handleStatus(d) == d

handleDeviceInfo(d) == d

\* The "state" object of /api/device-info
deviceState(d) ==
    [preview |-> d.isPreview, program |-> d.isProgram,
     streaming |-> d.isStreaming, recording |-> d.isRecording,
     connected |-> d.serverConnected]

\* The JSON documents the two handlers send (device type, firmware version,
\* IP and MAC address left out)
statusResponse(d) ==
    [kind |-> "status", device_name |-> d.deviceName,
     preview |-> d.isPreview, program |-> d.isProgram,
     streaming |-> d.isStreaming, recording |-> d.isRecording,
     connected |-> d.serverConnected]

deviceInfoResponse(d) ==
    [kind |-> "device-info", device_name |-> d.deviceName,
     assigned_source |-> d.assignedSource, hostname |-> d.hostname,
     led_disabled |-> d.ledManuallyDisabled, state |-> deviceState(d)]

\* What webServer.send() is given for a GET request, once its handler ran
getResponse(d, req) ==
    IF req.kind = "status" THEN statusResponse(d) ELSE deviceInfoResponse(d)

\* GET /reset, POST /api/reset, GET /restart
handleReset(d) == espRestart(d)

\* webServer.handleClient(): serves the request that is waiting, if any
handleClient(d, req) ==
    CASE req.kind = "none" -> d
      [] req.kind = "tally" -> handleTally(d, req.body)
      [] req.kind = "config" -> handleConfigPost(d, req.form)
      [] req.kind = "status" -> handleStatus(d)
      [] req.kind = "device-info" -> handleDeviceInfo(d)
      [] req.kind = "reset" -> handleReset(d)

----------------------------------------------------------------------------
(* setup() *)

\* c: wifiManager.autoConnect() connected
setupWiFi(d, c) ==
    IF ~c THEN [d EXCEPT !.configMode = TRUE]
    ELSE IF d.serverIP # "" /\ d.serverPort > 0
    THEN [d EXCEPT !.serverURL = Url(d.serverIP, d.serverPort)]
    ELSE d

\* setup(), WiFi connected: register and start talking to the server
setupSession(d, w, t, net) ==
    IF d.serverIP # "" /\ d.serverPort > 0 /\ d.serverURL # NoUrl
    THEN LET d1 == registerDevice(d, w, t, net)
             d2 == sendHeartbeat(d1, w, t, net)
         IN  fetchCurrentTallyState(d2, w, t, net)
    ELSE d

\* c: the outcome of autoConnect, which is WiFi.status() from then on;
\* t: millis() when the device registers
setup(d, c, t, net) ==
    LET d1 == loadConfig(d)
        d2 == [d1 EXCEPT !.serverPort = IF @ = 0 THEN DEFAULT_SERVER_PORT ELSE @]
        d3 == setupWiFi(d2, c)
        d4 == IF c THEN setupSession(d3, c, t, net) ELSE d3
    IN  fetchCurrentTallyState(d4, c, t, net)

----------------------------------------------------------------------------
(* loop() *)

\* A link-down branch that forgets serverConnected
loopLinkDownKeepsServer(d) ==
    LogLinkLoss([d EXCEPT !.wasDisconnected = TRUE, !.isRegistered = FALSE])

\* A link-down branch that also forgets the tally state
loopLinkDownClearsTally(d) ==
    LogLinkLoss([d EXCEPT !.wasDisconnected = TRUE,
                          !.isRegistered = FALSE,
                          !.serverConnected = FALSE,
                          !.isProgram = FALSE,
                          !.isPreview = FALSE])

\* loop(), WiFi.status() != WL_CONNECTED
loopLinkDown(d) ==
    LogLinkLoss([d EXCEPT !.wasDisconnected = TRUE,
                          !.isRegistered = FALSE,
                          !.serverConnected = FALSE])

\* loop(), WiFi connection restored
loopLinkRestored(d, w, t, net) ==
    IF d.wasDisconnected
    THEN LET d1 == LogLinkLoss([d EXCEPT !.wasDisconnected = FALSE,
                                         !.isRegistered = FALSE,
                                         !.restored = TRUE,
                                         !.addrAtLinkUp = (d.serverIP # "" /\ d.serverPort > 0)])
         IN  fetchCurrentTallyState(d1, w, t, net)
    ELSE d

\* loop(), fallback registration
loopFallback(d, w, t, net) ==
    IF ~d.isRegistered /\ d.serverIP # "" /\ d.serverPort > 0
       /\ t > FALLBACK_MIN_UPTIME
       /\ t - d.lastRegistrationAttempt > FALLBACK_RETRY_INTERVAL
    THEN LET d1 == IF d.serverURL = NoUrl
                   THEN [d EXCEPT !.serverURL = Url(d.serverIP, d.serverPort)]
                   ELSE d
         IN  [registerDevice(d1, w, t, net) EXCEPT !.lastRegistrationAttempt = t]
    ELSE d

heartbeatIntervalOf(d) ==
    IF d.powerSaveMode THEN HEARTBEAT_INTERVAL_POWER_SAVE ELSE HEARTBEAT_INTERVAL

\* A heartbeat trigger that waits for the registration
loopHeartbeatWhenRegistered(d, w, t, net) ==
    IF d.isRegistered /\ t - d.lastHeartbeatTime > heartbeatIntervalOf(d)
    THEN LogTrigger(d, sendHeartbeat(d, w, t, net))
    ELSE d

\* loop(), heartbeat trigger
loopHeartbeat(d, w, t, net) ==
    IF t - d.lastHeartbeatTime > heartbeatIntervalOf(d)
    THEN LogTrigger(d, sendHeartbeat(d, w, t, net))
    ELSE d

announceIntervalOf(d) ==
    IF d.powerSaveMode THEN ANNOUNCE_INTERVAL * 4 ELSE ANNOUNCE_INTERVAL * 2

\* loop(), announce trigger
loopAnnounce(d, t) ==
    IF t - d.lastAnnounce > announceIntervalOf(d) THEN announceDevice(d, t) ELSE d

\* loop(), from its start to webServer.handleClient().  w: WiFi.status()
\* == WL_CONNECTED; t: millis(); in: whether button A is held, and the
\* answers of the server.  A config-mode iteration that finds WiFi
\* connected runs setup() again, at tSetup.
loopHead(d, w, t, tSetup, in) ==
    IF in.btnALong THEN factoryReset(Path(d, "factory-reset"))
    ELSE IF d.configMode
    THEN IF w
         THEN setup(Path([d EXCEPT !.configMode = FALSE], "config-exit"),
                    w, tSetup, in.net)
         ELSE Path(d, "config")
    ELSE IF ~w THEN Path(loopLinkDown(d), "down")
    ELSE loopFallback(loopLinkRestored(Path(d, "connected"), w, t, in.net),
                      w, t, in.net)

(* Button B *)

\* A reading of the button by M5.update(): down or up, and, when down, the
\* number of the press it belongs to
Sample(down, press) == [down |-> down, press |-> press]

\* M5.update(), button B: the new level is kept, and whether it differs
\* from the level of the update before.
M5update(d, sample) ==
    [d EXCEPT !.BtnB_state = sample.down,
              !.BtnB_changed = (sample.down # d.BtnB_state),
              !.BtnB_press = IF sample.down THEN sample.press ELSE @]

\* M5.BtnB.wasPressed(), M5.BtnB.wasReleased()
wasPressed(d) == d.BtnB_state /\ d.BtnB_changed
wasReleased(d) == ~d.BtnB_state /\ d.BtnB_changed

toggleLED(d) ==
    saveConfig([d EXCEPT !.ledManuallyDisabled = ~@,
                         !.elapsed = @ + TOGGLE_DELAY])

\* An updateLED() that does not look at ledManuallyDisabled
updateLEDIgnoresPreference(d, w, t) ==
    IF ~d.serverConnected \/ ~w \/ d.configMode
    THEN Path([d EXCEPT !.led = FALSE, !.ledState = FALSE], "error")
    ELSE IF d.isProgram
    THEN Path([d EXCEPT !.led = TRUE, !.ledState = TRUE], "solid")
    ELSE IF d.isPreview
    THEN IF t - d.lastLEDBlink > LED_BLINK_INTERVAL
         THEN Path([d EXCEPT !.ledState = ~@, !.led = ~d.ledState,
                             !.lastLEDBlink = t], "blink")
         ELSE Path(d, "blink-wait")
    ELSE Path([d EXCEPT !.led = FALSE, !.ledState = FALSE], "idle")

\* updateLED().  w: WiFi.status() == WL_CONNECTED; t: millis().  The path is
\* the branch taken.
updateLED(d, w, t) ==
    IF d.ledManuallyDisabled
    THEN Path([d EXCEPT !.led = FALSE, !.ledState = FALSE], "disabled")
    ELSE IF ~d.serverConnected \/ ~w \/ d.configMode
    THEN Path([d EXCEPT !.led = FALSE, !.ledState = FALSE], "error")
    ELSE IF d.isProgram
    THEN Path([d EXCEPT !.led = TRUE, !.ledState = TRUE], "solid")
    ELSE IF d.isPreview
    THEN IF t - d.lastLEDBlink > LED_BLINK_INTERVAL
         THEN Path([d EXCEPT !.ledState = ~@, !.led = ~d.ledState,
                             !.lastLEDBlink = t], "blink")
         ELSE Path(d, "blink-wait")
    ELSE Path([d EXCEPT !.led = FALSE, !.ledState = FALSE], "idle")

\* toggleLED() with what it does to the LED: off at once when the
\* preference is set, updateLED() when it is cleared
toggleLEDPin(d, w, t) ==
    LET a == toggleLED(d)
    IN  IF a.ledManuallyDisabled THEN [a EXCEPT !.led = FALSE]
        ELSE updateLED(a, w, t)

\* handleConfigPost() with what it does to the LED when the form changes
\* the preference (ledStateChanged)
handleConfigPostPin(d, form, w, t) ==
    LET a == handleConfigPost(d, form)
        ledStateChanged == d.ledManuallyDisabled # form.led_disabled
    IN  IF ~ledStateChanged THEN a
        ELSE IF a.ledManuallyDisabled THEN [a EXCEPT !.led = FALSE]
        ELSE updateLED(a, w, t)

\* The LED block of loop(), five times a second at most
loopLED(d, w, t) ==
    IF t - d.lastLEDUpdate > LED_UPDATE_INTERVAL
    THEN [updateLED(d, w, t) EXCEPT !.lastLEDUpdate = t]
    ELSE Path(d, "limited")

\* showNetworkInfo(): the page stays for INFO_TIME, M5.update() every
\* INFO_POLL, and goes at the first update that sees a button go down.
\* polls: what those updates read, one for every INFO_POLL of INFO_TIME.
\* No variable of the firmware changes; the button object does.
showNetworkInfo(d, polls) ==
    LET before(i) == IF i = 1 THEN Sample(d.BtnB_state, d.BtnB_press) ELSE polls[i - 1]
        breaks == {i \in DOMAIN polls : polls[i].down /\ ~before(i).down}
        last == IF breaks = {} THEN Len(polls)
                ELSE CHOOSE i \in breaks : \A j \in breaks : i <= j
    IN  IF last = 0 THEN [d EXCEPT !.elapsed = @ + INFO_TIME]
        ELSE [M5update([d EXCEPT !.BtnB_state = before(last).down], polls[last])
                EXCEPT !.elapsed = @ + (IF breaks = {} THEN INFO_TIME
                                        ELSE INFO_POLL * (last - 1))]

\* handleButtonB(), double click: a forced heartbeat
buttonDoubleClick(d, w, t, net) ==
    LET d1 == sendHeartbeat([d EXCEPT !.btnB_WaitingForDouble = FALSE,
                                      !.btnB_ClickCount = 2,
                                      !.doubleClicked = TRUE], w, t, net)
    IN  [d1 EXCEPT !.btnB_ClickCount = 0, !.elapsed = @ + CHECK_DELAY]

\* A long press that does not remember that it was handled
buttonLongPressForgets(d, polls) ==
    showNetworkInfo([d EXCEPT !.btnB_WaitingForDouble = FALSE,
                              !.btnB_ClickCount = 0,
                              !.longPressed = TRUE,
                              !.longOf = d.heldPress,
                              !.longRepeated = @ \/ (d.longOf = d.heldPress)],
                    polls)

\* handleButtonB(), long press: the network page
buttonLongPress(d, polls) ==
    showNetworkInfo([d EXCEPT !.btnB_LongPressHandled = TRUE,
                              !.btnB_WaitingForDouble = FALSE,
                              !.btnB_ClickCount = 0,
                              !.longPressed = TRUE,
                              !.longOf = d.heldPress,
                              !.longRepeated = @ \/ (d.longOf = d.heldPress)],
                    polls)

\* handleButtonB(), single click timeout: the LED toggle
buttonTimeout(d, t) ==
    IF d.btnB_WaitingForDouble /\ t - d.btnB_LastPress >= DOUBLE_CLICK_TIME
    THEN LET d1 == [d EXCEPT !.btnB_WaitingForDouble = FALSE]
             d2 == IF d.btnB_ClickCount = 1
                   THEN toggleLED([d1 EXCEPT !.singleClicked = TRUE])
                   ELSE d1
         IN  [d2 EXCEPT !.btnB_ClickCount = 0]
    ELSE d

\* handleButtonB().  t: millis(); polls: what showNetworkInfo() reads.
handleButtonB(d, w, t, net, polls) ==
    LET d1 == IF wasPressed(d)
              THEN [d EXCEPT !.btnB_PressStart = t, !.btnB_IsPressed = TRUE,
                             !.btnB_LongPressHandled = FALSE,
                             !.heldPress = d.BtnB_press]
              ELSE d
    IN  IF wasPressed(d) /\ d.btnB_WaitingForDouble
        THEN buttonDoubleClick(d1, w, t, net)
        ELSE LET d2 == IF wasPressed(d)
                       THEN [d1 EXCEPT !.btnB_WaitingForDouble = TRUE,
                                       !.btnB_LastPress = t,
                                       !.btnB_ClickCount = 1]
                       ELSE d1
                 d3 == IF wasReleased(d) THEN [d2 EXCEPT !.btnB_IsPressed = FALSE]
                       ELSE d2
             IN  IF wasReleased(d) /\ d3.btnB_LongPressHandled
                 THEN [d3 EXCEPT !.btnB_WaitingForDouble = FALSE,
                                 !.btnB_ClickCount = 0]
                 ELSE IF d3.btnB_IsPressed /\ ~d3.btnB_LongPressHandled
                         /\ t - d3.btnB_PressStart >= LONG_PRESS_TIME
                 THEN buttonLongPress(d3, polls)
                 ELSE buttonTimeout(d3, t)

\* loop(), from webServer.handleClient() to its end
loopTail(d, w, t, in) ==
    handleButtonB(loopAnnounce(loopHeartbeat(d, w, t, in.net), t),
                  w, t, in.net, in.polls)

----------------------------------------------------------------------------
(* Power management *)

\* An enterDeepSleep() without the tally check
enterDeepSleepAnyTally(d, t) ==
    IF d.batteryPercent <= DEEP_SLEEP_MIN_BATTERY
    THEN [d EXCEPT !.deepSleepEnabled = FALSE]
    ELSE IF t < DEEP_SLEEP_MIN_UPTIME THEN d
    ELSE [d EXCEPT !.asleep = TRUE]

\* enterDeepSleep().  t: millis().  No handler runs between the checks and
\* esp_deep_sleep_start(): the web server is served from loop() only.
enterDeepSleep(d, t) ==
    IF d.batteryPercent <= DEEP_SLEEP_MIN_BATTERY
    THEN [d EXCEPT !.deepSleepEnabled = FALSE]
    ELSE IF t < DEEP_SLEEP_MIN_UPTIME THEN d
    ELSE IF d.isPreview \/ d.isProgram THEN d
    ELSE [d EXCEPT !.asleep = TRUE]

\* Arduino's map(), constrain() and abs() on long
map(x, in_min, in_max, out_min, out_max) ==
    ((x - in_min) * (out_max - out_min)) \div (in_max - in_min) + out_min

constrain(x, lo, hi) == IF x < lo THEN lo ELSE IF x > hi THEN hi ELSE x

abs(x) == IF x < 0 THEN 0 - x ELSE x

\* A voltage check that takes 2.0 V for a battery
plausibleFrom2V(mv) == ~(mv < 2000 \/ mv > 5000)

\* The voltage check of updateBatteryStatus(): the reading is usable
plausible(mv) == ~(mv < 2500 \/ mv > 5000)

\* A curve whose 30..60 band runs up to 65
percentOfOverlapping(mv, full) ==
    constrain(IF mv >= 4100 THEN 100
              ELSE IF full THEN 100
              ELSE IF mv >= 3950 THEN map(mv, 3950, 4100, 95, 99)
              ELSE IF mv >= 3800 THEN map(mv, 3800, 3950, 85, 95)
              ELSE IF mv >= 3600 THEN map(mv, 3600, 3800, 60, 85)
              ELSE IF mv >= 3400 THEN map(mv, 3400, 3600, 30, 65)
              ELSE IF mv >= 3200 THEN map(mv, 3200, 3400, 10, 30)
              ELSE IF mv >= 3000 THEN map(mv, 3000, 3200, 0, 10)
              ELSE 0,
              0, 100)

\* The percentage updateBatteryStatus() computes from the voltage, before
\* it decides whether to store it.  full: maintainFullCharge ||
\* recentlyDisconnected
percentOf(mv, full) ==
    constrain(IF mv >= 4100 THEN 100
              ELSE IF full THEN 100
              ELSE IF mv >= 3950 THEN map(mv, 3950, 4100, 95, 99)
              ELSE IF mv >= 3800 THEN map(mv, 3800, 3950, 85, 95)
              ELSE IF mv >= 3600 THEN map(mv, 3600, 3800, 60, 85)
              ELSE IF mv >= 3400 THEN map(mv, 3400, 3600, 30, 60)
              ELSE IF mv >= 3200 THEN map(mv, 3200, 3400, 10, 30)
              ELSE IF mv >= 3000 THEN map(mv, 3000, 3200, 0, 10)
              ELSE 0,
              0, 100)

\* The charging detection of updateBatteryStatus() for a usable reading r
\* taken at time t
isCharging(r) == r.ma > 1
chargingComplete(r) == r.mv >= 4100 /\ r.ma > 0 /\ r.ma < 15
recentlyDisconnected(d, r) ==
    /\ d.wasChargingComplete
    /\ ~isCharging(r)
    /\ ~chargingComplete(r)
    /\ r.mv >= 3850
    /\ r.mv < 4100
disconnectTime(d, t, r) ==
    IF recentlyDisconnected(d, r) THEN t ELSE d.lastDisconnectTime
maintainFullChargeAnyVoltage(d, t, r) ==
    /\ t - disconnectTime(d, t, r) < FULL_CHARGE_HOLD
    /\ ~isCharging(r)
maintainFullCharge(d, t, r) ==
    /\ t - disconnectTime(d, t, r) < FULL_CHARGE_HOLD
    /\ r.mv >= 3850
    /\ ~isCharging(r)
newBatteryPercent(d, t, r) ==
    percentOf(r.mv, maintainFullCharge(d, t, r) \/ recentlyDisconnected(d, r))

\* An anti-jitter check without the voltage test
ignoredReadingAnyVoltage(d, new, mv) ==
    abs(new - d.batteryPercent) > JITTER_LIMIT /\ new = 0

\* The anti-jitter check of updateBatteryStatus(): the new percentage is
\* not stored
ignoredReading(d, new, mv) ==
    abs(new - d.batteryPercent) > JITTER_LIMIT /\ new = 0 /\ mv > 3000

\* An updateBatteryStatus() that keeps the percentage on a sensor fault
updateBatteryStatusKeepsPercent(d, t, r) ==
    IF ~plausible(r.mv)
    THEN [d EXCEPT !.deepSleepEnabled = FALSE,
                   !.gauge = r, !.battery = "fault",
                   !.batteryBefore = d.batteryPercent]
    ELSE LET new == newBatteryPercent(d, t, r)
             e == [d EXCEPT !.lastDisconnectTime = disconnectTime(d, t, r),
                            !.wasChargingComplete = chargingComplete(r),
                            !.gauge = r, !.newBatteryPercent = new,
                            !.batteryBefore = d.batteryPercent]
         IN IF ignoredReading(d, new, r.mv)
            THEN [e EXCEPT !.battery = "rejected"]
            ELSE [e EXCEPT !.batteryPercent = new, !.battery = "accepted"]

\* updateBatteryStatus().  t: millis(); r: what the gauge reads
updateBatteryStatus(d, t, r) ==
    IF ~plausible(r.mv)
    THEN [d EXCEPT !.batteryPercent = FALLBACK_PERCENT,
                   !.deepSleepEnabled = FALSE,
                   !.gauge = r, !.battery = "fault",
                   !.batteryBefore = d.batteryPercent]
    ELSE LET new == newBatteryPercent(d, t, r)
             e == [d EXCEPT !.lastDisconnectTime = disconnectTime(d, t, r),
                            !.wasChargingComplete = chargingComplete(r),
                            !.gauge = r, !.newBatteryPercent = new,
                            !.batteryBefore = d.batteryPercent]
         IN IF ignoredReading(d, new, r.mv)
            THEN [e EXCEPT !.battery = "rejected"]
            ELSE [e EXCEPT !.batteryPercent = new, !.battery = "accepted"]

\* Low-battery branches with one threshold for both directions
lowBatteryOneThreshold(d) ==
    [d EXCEPT !.lowBatteryMode = (d.batteryPercent < LOW_BATTERY_ENTER)]

\* The low-battery branches of updatePowerState()
lowBattery(d) ==
    IF d.batteryPercent < LOW_BATTERY_ENTER /\ ~d.lowBatteryMode
    THEN [d EXCEPT !.lowBatteryMode = TRUE]
    ELSE IF d.batteryPercent > LOW_BATTERY_EXIT /\ d.lowBatteryMode
         THEN [d EXCEPT !.lowBatteryMode = FALSE]
         ELSE d

\* updatePowerState().  t: millis(); r: what the gauge reads, if it is read
updatePowerState(d, t, r) ==
    IF t - d.lastPowerStateUpdate < POWER_STATE_INTERVAL
    THEN Path(d, "limited")
    ELSE LET a == [d EXCEPT !.lastPowerStateUpdate = t]
             b == IF t - a.lastBatteryUpdate > BATTERY_UPDATE_INTERVAL
                  THEN [updateBatteryStatus(a, t, r) EXCEPT !.lastBatteryUpdate = t]
                  ELSE a
         IN Path([lowBattery(b) EXCEPT !.powerSaveMode = FALSE,
                                       !.displayDimmed = FALSE,
                                       !.deepSleepEnabled = FALSE],
                 "tick")

\* An initPowerManagement() that leaves deepSleepEnabled as the boot set it
initPowerManagementKeepsSleepArmed(d, t, r) ==
    updateBatteryStatus([d EXCEPT !.lastActivity = t,
                                  !.powerSaveMode = FALSE,
                                  !.displayDimmed = FALSE,
                                  !.lowBatteryMode = FALSE,
                                  !.batteryPercent = FALLBACK_PERCENT],
                        t + INIT_POWER_DELAY, r)

\* initPowerManagement(), called by setup()
initPowerManagement(d, t, r) ==
    [updateBatteryStatus([d EXCEPT !.lastActivity = t,
                                   !.powerSaveMode = FALSE,
                                   !.displayDimmed = FALSE,
                                   !.deepSleepEnabled = FALSE,
                                   !.lowBatteryMode = FALSE,
                                   !.batteryPercent = FALLBACK_PERCENT],
                         t + INIT_POWER_DELAY, r)
       EXCEPT !.deepSleepEnabled = FALSE]

dimDisplay(d) ==
    IF d.displayDimmed THEN d ELSE [d EXCEPT !.displayDimmed = TRUE]

brightenDisplay(d) ==
    IF ~d.displayDimmed THEN d ELSE [d EXCEPT !.displayDimmed = FALSE]

enterPowerSaveMode(d) ==
    IF d.powerSaveMode THEN d
    ELSE LET a == [d EXCEPT !.powerSaveMode = TRUE]
         IN IF ~a.displayDimmed THEN dimDisplay(a) ELSE a

exitPowerSaveMode(d) ==
    IF ~d.powerSaveMode THEN d
    ELSE brightenDisplay([d EXCEPT !.powerSaveMode = FALSE])

\* An updateActivity() that does not look at lowBatteryMode
updateActivityIgnoresLowBattery(d, t) ==
    IF t - d.lastActivity < ACTIVITY_MIN_INTERVAL
    THEN Path(d, "limited")
    ELSE LET a == [d EXCEPT !.lastActivity = t]
             changedSomething == a.powerSaveMode \/ a.displayDimmed
         IN Path(brightenDisplay(exitPowerSaveMode(a)),
                 IF changedSomething THEN "reset" ELSE "recorded")

\* updateActivity().  t: millis().  The path is "limited" if the call
\* returned at its rate limit, "reset" if it switched power saving off
\* (changedSomething), "recorded" otherwise.
updateActivity(d, t) ==
    IF t - d.lastActivity < ACTIVITY_MIN_INTERVAL
    THEN Path(d, "limited")
    ELSE LET a == [d EXCEPT !.lastActivity = t]
             b == IF a.powerSaveMode /\ ~a.lowBatteryMode
                  THEN exitPowerSaveMode(a) ELSE a
             c == IF b.displayDimmed /\ ~b.lowBatteryMode
                  THEN brightenDisplay(b) ELSE b
             changedSomething ==
                 (a.powerSaveMode \/ a.displayDimmed) /\ ~a.lowBatteryMode
         IN Path(c, IF changedSomething THEN "reset" ELSE "recorded")

\* The button A block of loop(), when M5.BtnA.wasPressed()
loopButtonA(d, t) ==
    IF t - d.lastBtnActivity > BTN_ACTIVITY_INTERVAL
    THEN [updateActivity(d, t) EXCEPT !.lastBtnActivity = t]
    ELSE Path(d, "skipped")

\* The initial awake period of loop(): in the first ten minutes after the
\* boot every iteration disarms deep sleep and calls updatePowerState(),
\* and every 30 s it calls updateActivity()
loopAwakePeriod(d, t, r) ==
    LET a == IF d.initialAwakePeriod /\ t > INITIAL_AWAKE_PERIOD
             THEN [d EXCEPT !.initialAwakePeriod = FALSE]
             ELSE IF d.initialAwakePeriod
                  THEN updatePowerState([d EXCEPT !.deepSleepEnabled = FALSE], t, r)
                  ELSE d
    IN IF a.initialAwakePeriod /\ t - a.lastInitialActivity > INITIAL_ACTIVITY_INTERVAL
       THEN [updateActivity(a, t) EXCEPT !.lastInitialActivity = t, !.path = a.path]
       ELSE a

\* The power update of loop(), every 5 s
loopPowerUpdate(d, t, r) ==
    IF t - d.lastPowerUpdate > POWER_UPDATE_INTERVAL
    THEN [updatePowerState(d, t, r) EXCEPT !.lastPowerUpdate = t]
    ELSE d

\* What an iteration of loop() does for the power state, button A aside
loopPower(d, t, r) == loopPowerUpdate(loopAwakePeriod(d, t, r), t, r)

\* preventRestartConditions(): the power flags it finds set are cleared
preventRestartConditions(d) ==
    LET a == IF d.powerSaveMode \/ d.displayDimmed
             THEN [d EXCEPT !.powerSaveMode = FALSE, !.displayDimmed = FALSE]
             ELSE d
    IN IF a.deepSleepEnabled THEN [a EXCEPT !.deepSleepEnabled = FALSE] ELSE a

\* performStabilityCheck(), called by every iteration of loop() that
\* reaches the heartbeat part.  t: millis()
performStabilityCheck(d, t) ==
    IF t - d.lastStabilityCheck < STABILITY_CHECK_INTERVAL
    THEN Path(d, "limited")
    ELSE Path(preventRestartConditions([d EXCEPT !.lastStabilityCheck = t]),
              "checked")

----------------------------------------------------------------------------
(* What the device meets: stored configurations, answers of the server,    *)
(* web requests                                                            *)

InitPrefs ==
    {EmptyPrefs,
     StoredConfig("10.0.0.5", DEFAULT_SERVER_PORT, DEFAULT_DEVICE_NAME, "", "", FALSE)}

\* Answers to POST /api/esp32/register: accepted, refused, no answer
RegCodes == {HTTP_OK, 500, -1}

HbStatuses ==
    {Absent, JStr("Live"), JStr("Preview"), JStr("Idle"), JObj(JStr("Program"))}

HbBodies == {JsonBody(StatusDoc(v)) : v \in HbStatuses} \cup {BadJson}

\* Answers to POST /api/heartbeat
HbResponses ==
    {[code |-> HTTP_OK, body |-> b] : b \in HbBodies}
    \cup {[code |-> c, body |-> NoBody] : c \in {HTTP_NOT_FOUND, 500, -1}}

Nets == [reg : RegCodes, hb : HbResponses]

PushStatuses ==
    {Absent, JStr("Live"), JStr("Program"), JStr("Preview"), JStr("Idle")}

PushBodies ==
    {NoBody, BadJson}
    \cup {JsonBody(StatusDoc(v)) : v \in PushStatuses}
    \cup {JsonBody(Doc(JStr("Live"), Absent, Absent, Absent, Absent,
                       JBool(FALSE), Absent, Absent))}

WebRequests ==
    {NoRequest, GetStatus, GetReset,
     ConfigPost(Form("10.0.0.5", "", 0, "", FALSE))}
    \cup {TallyPush(b) : b \in PushBodies}

QuietNet == [reg |-> -1, hb |-> [code |-> -1, body |-> NoBody]]

\* Button A held for a factory reset or not, and the answers of the server
HeadInputs(nets) ==
    {[btnALong |-> FALSE, net |-> n] : n \in nets}
    \cup {[btnALong |-> TRUE, net |-> QuietNet]}

\* WiFi.status() after handleClient(), button B pressed or not, and the
\* answers of the server
TailInputs(presses, nets) ==
    [link : BOOLEAN, btnB : presses, net : nets, polls : {<<>>}]

\* A smaller world for the runs in which button B is used
ButtonHbResponses ==
    {[code |-> HTTP_OK, body |-> JsonBody(StatusDoc(JStr("Live")))]}
    \cup {[code |-> c, body |-> NoBody] : c \in {HTTP_NOT_FOUND, -1}}

ButtonNets == [reg : RegCodes, hb : ButtonHbResponses]

ButtonWebRequests ==
    {NoRequest, ConfigPost(Form("10.0.0.5", "", 0, "", FALSE))}

----------------------------------------------------------------------------
(* The state machine *)

Init ==
    /\ dev \in {InitDev(p) : p \in InitPrefs}
    /\ wifi = FALSE
    /\ now = 0
    /\ pc = "boot"

\* The device after ESP.restart(): RAM is lost, the flash store is kept.
\* The log of the step that restarted stays readable.
Restart(d) ==
    [InitDev(d.prefs) EXCEPT
       !.op = d.op, !.path = d.path, !.sent = d.sent,
       !.after404 = d.after404]

\* Power-up or reboot: setup() runs, then loop() is called for ever.
Setup(nets) ==
    /\ pc = "boot"
    /\ \E c \in BOOLEAN, net \in nets :
         /\ dev' = setup(StartStep(dev, "setup"), c, now + TickMs, net)
         /\ wifi' = c
    /\ now' = now + TickMs
    /\ pc' = "run"

\* loop() up to webServer.handleClient(), or to its early return.
LoopStart(ins) ==
    /\ pc = "run"
    /\ \E in \in ins :
         LET d1 == loopHead(StartStep(dev, "loop"), wifi, now, now + TickMs, in) IN
         IF d1.restart
         THEN /\ dev' = Restart(d1)
              /\ wifi' = FALSE
              /\ now' = 0
              /\ pc' = "boot"
         ELSE IF d1.path = "config-exit"
         THEN /\ now + TickMs <= MaxTime
              /\ dev' = d1
              /\ now' = now + TickMs
              /\ UNCHANGED <<wifi, pc>>
         ELSE /\ dev' = d1
              /\ pc' = IF d1.path = "connected" THEN "client" ELSE "run"
              /\ UNCHANGED <<wifi, now>>

\* webServer.handleClient(): the handler of the request that is waiting.
LoopServe(reqs) ==
    /\ pc = "client"
    /\ \E req \in reqs :
         LET d1 == handleClient(dev, req) IN
         IF d1.restart
         THEN /\ dev' = Restart(d1)
              /\ wifi' = FALSE
              /\ now' = 0
              /\ pc' = "boot"
         ELSE /\ dev' = d1
              /\ pc' = "tail"
              /\ UNCHANGED <<wifi, now>>

\* Button B as an iteration sees it when the user gives short clicks.
\* down: the M5.update() of the iteration read a new press; if not, and a
\* press was held, it read the release.  (A press after a press is one
\* whose release was read by an iteration that returned before
\* handleButtonB().)  The clock of this world stands still from one
\* iteration to the next, while the device spends at least LOOP_DELAY
\* between two calls of handleButtonB(): a press taken down by an earlier
\* iteration is made LOOP_DELAY old.
ClickSeen(d, down, t) ==
    [d EXCEPT !.BtnB_state = down,
              !.BtnB_changed = (down \/ d.btnB_IsPressed),
              !.btnB_PressStart = t - LOOP_DELAY,
              !.btnB_LastPress = t - LOOP_DELAY]

\* The times of the press are not kept from one iteration to the next.
ClickDone(d) ==
    [d EXCEPT !.BtnB_state = FALSE, !.BtnB_changed = FALSE,
              !.btnB_PressStart = 0, !.btnB_LastPress = 0, !.elapsed = 0]

\* The rest of loop().  The link may have dropped since the iteration
\* looked at it.
LoopFinish(ins) ==
    /\ pc = "tail"
    /\ \E in \in ins :
         /\ dev' = ClickDone(loopTail(ClickSeen(dev, in.btnB, now), in.link, now, in))
         /\ wifi' = in.link
    /\ pc' = "run"
    /\ UNCHANGED now

\* The access point comes into reach.
LinkUp ==
    /\ pc = "run"
    /\ ~wifi
    /\ wifi' = TRUE
    /\ dev' = StartStep(dev, "link-up")
    /\ UNCHANGED <<now, pc>>

\* The WiFi connection is lost.
LinkDown ==
    /\ pc = "run"
    /\ wifi
    /\ wifi' = FALSE
    /\ dev' = [StartStep(dev, "link-down") EXCEPT !.triggerFailed = FALSE]
    /\ UNCHANGED <<now, pc>>

\* Time passes.
Tick ==
    /\ pc = "run"
    /\ now + TickMs <= MaxTime
    /\ now' = now + TickMs
    /\ dev' = [StartStep(dev, "tick") EXCEPT !.triggerFailed = FALSE]
    /\ UNCHANGED <<wifi, pc>>

\* The device, its server, its web clients and its WiFi link; button B is
\* left alone.
Next ==
    \/ Setup(Nets)
    \/ LoopStart(HeadInputs(Nets))
    \/ LoopServe(WebRequests)
    \/ LoopFinish(TailInputs({FALSE}, Nets))
    \/ LinkUp
    \/ LinkDown
    \/ Tick

Spec == Init /\ [][Next]_vars

\* The same with button B in use, in the smaller world.
NextButton ==
    \/ Setup(ButtonNets)
    \/ LoopStart(HeadInputs(ButtonNets))
    \/ LoopServe(ButtonWebRequests)
    \/ LoopFinish(TailInputs(BOOLEAN, ButtonNets))
    \/ LinkUp
    \/ LinkDown
    \/ Tick

SpecButton == Init /\ [][NextButton]_vars

----------------------------------------------------------------------------
(* The session for ever.  loop() is called again and again and millis()    *)
(* grows without bound; the server, the web clients and the WiFi link do   *)
(* as they like.  The firmware compares millis() with 60000 and the age of *)
(* a timestamp with intervals of at most 60000 ms, so the clock is kept as *)
(* min(millis(), LiveMaxTime) and a timestamp as its age, of which only    *)
(* what lies below LiveMaxTime is told apart.                              *)

LiveMaxTime == LiveMaxTicks * LiveTickMs

\* The clock LiveTickMs later
Later(t) == IF t + LiveTickMs <= LiveMaxTime THEN t + LiveTickMs ELSE t

Earlier(ts) == IF ts > LiveTickMs THEN ts - LiveTickMs ELSE 0

\* The device LiveTickMs later: once the clock stands at LiveMaxTime the
\* timestamps of the session move back instead
Aged(d, t) ==
    IF t + LiveTickMs <= LiveMaxTime THEN d
    ELSE [d EXCEPT !.lastHeartbeatTime = Earlier(@),
                   !.lastAnnounce = Earlier(@),
                   !.lastFetch = Earlier(@),
                   !.lastRegistrationAttempt = Earlier(@)]

LiveHbResponses ==
    {[code |-> HTTP_OK, body |-> JsonBody(StatusDoc(JStr("Live")))],
     [code |-> HTTP_NOT_FOUND, body |-> NoBody]}

\* The server accepts a registration, or does not answer it
LiveNets == [reg : {HTTP_OK, -1}, hb : LiveHbResponses]

LiveWebRequests == {NoRequest, GetReset}

InitLive ==
    /\ dev \in {InitDev(p) : p \in InitPrefs}
    /\ wifi = FALSE
    /\ now = 0
    /\ pc = "boot"

LiveSetup ==
    /\ pc = "boot"
    /\ \E c \in BOOLEAN, net \in LiveNets :
         /\ dev' = setup(StartStep(dev, "setup"), c, Later(now), net)
         /\ wifi' = c
    /\ now' = Later(now)
    /\ pc' = "run"

\* loop() up to webServer.handleClient(), or to its early return.  The
\* iteration that leaves config mode runs setup() and takes LiveTickMs.
LiveStart ==
    /\ pc = "run"
    /\ \E in \in HeadInputs(LiveNets) :
         LET d1 == loopHead(StartStep(Aged(dev, now), "loop"), wifi, now,
                            Later(now), in)
             d2 == loopHead(StartStep(dev, "loop"), wifi, now, now, in)
         IN  IF d1.restart
             THEN /\ dev' = Restart(d1)
                  /\ wifi' = FALSE
                  /\ now' = 0
                  /\ pc' = "boot"
             ELSE IF d1.path = "config-exit"
             THEN /\ dev' = d1
                  /\ now' = Later(now)
                  /\ UNCHANGED <<wifi, pc>>
             ELSE /\ dev' = d2
                  /\ pc' = IF d2.path = "connected" THEN "client" ELSE "run"
                  /\ UNCHANGED <<wifi, now>>

LiveServe == LoopServe(LiveWebRequests)

LiveFinish == LoopFinish(TailInputs({FALSE}, LiveNets))

\* delay() at the end of the iterations has added up to LiveTickMs.
LiveTick ==
    /\ pc = "run"
    /\ now' = Later(now)
    /\ dev' = [StartStep(Aged(dev, now), "tick") EXCEPT !.triggerFailed = FALSE]
    /\ UNCHANGED <<wifi, pc>>

NextLive ==
    \/ LiveSetup
    \/ LiveStart
    \/ LiveServe
    \/ LiveFinish
    \/ LiveTick
    \/ LinkUp
    \/ LinkDown

\* loop() is called for ever (the Arduino core calls it from an endless
\* loop), ESP.restart() is followed by setup(), and every iteration ends
\* in delay(750), so that the clock goes on however the iterations fall.
LiveFairness ==
    /\ WF_vars(LiveSetup)
    /\ WF_vars(LiveStart)
    /\ WF_vars(LiveServe)
    /\ WF_vars(LiveFinish)
    /\ SF_vars(LiveTick)

SpecLive == InitLive /\ [][NextLive]_vars /\ LiveFairness

----------------------------------------------------------------------------
(* The device on battery: pushes set the tally flags, the battery gauge    *)
(* is read, time passes, and enterDeepSleep() is called.                   *)

\* Values of batteryPercent: critical, low, half, full
BatteryLevels == {3, DEEP_SLEEP_MIN_BATTERY, 50, 100}

\* The device as setup() leaves it with a stored configuration and no server
InitPower ==
    /\ dev \in {setup(StartStep(InitDev(p), "setup"), TRUE, 0, QuietNet) :
                  p \in InitPrefs \ {EmptyPrefs}}
    /\ wifi = TRUE
    /\ now = 0
    /\ pc = "power"

PowerPush ==
    /\ pc = "power"
    /\ ~dev.asleep
    /\ \E body \in PushBodies :
         dev' = handleClient(StartStep(dev, "push"), TallyPush(body))
    /\ UNCHANGED <<wifi, now, pc>>

\* The battery gauge gives a new reading.
PowerGauge ==
    /\ pc = "power"
    /\ ~dev.asleep
    /\ \E b \in BatteryLevels :
         dev' = [StartStep(dev, "gauge") EXCEPT !.batteryPercent = b]
    /\ UNCHANGED <<wifi, now, pc>>

PowerTick ==
    /\ pc = "power"
    /\ ~dev.asleep
    /\ now + PowerTickMs <= MaxPowerTicks * PowerTickMs
    /\ now' = now + PowerTickMs
    /\ dev' = StartStep(dev, "tick")
    /\ UNCHANGED <<wifi, pc>>

PowerSleep ==
    /\ pc = "power"
    /\ ~dev.asleep
    /\ dev' = enterDeepSleep(StartStep(dev, "enterDeepSleep"), now)
    /\ UNCHANGED <<wifi, now, pc>>

\* The wake-up from deep sleep is a reboot: RAM is lost, the flash store kept.
PowerWake ==
    /\ pc = "power"
    /\ dev.asleep
    /\ dev' = setup(StartStep(InitDev(dev.prefs), "setup"), TRUE, 0, QuietNet)
    /\ now' = 0
    /\ UNCHANGED <<wifi, pc>>

NextPower ==
    \/ PowerPush
    \/ PowerGauge
    \/ PowerTick
    \/ PowerSleep
    \/ PowerWake

SpecPower == InitPower /\ [][NextPower]_vars

----------------------------------------------------------------------------
(* The handlers that write the tally state and the configuration, applied  *)
(* one after the other to a device that is connected and registered: the   *)
(* /api/tally handler, handleConfigPost(), sendHeartbeat() and toggleLED() *)

PayloadFlags == {Absent, JBool(TRUE), JBool(FALSE)}

\* recordingStatus / streamingStatus: missing, an object with active, an
\* object without, a value that is no object
PayloadFlagObjects ==
    {Absent, JObj(JBool(TRUE)), JObj(JBool(FALSE)), JObj(Absent), JStr("on")}

PayloadSources == {Absent, JStr(""), JStr("Cam 1"), JStr("Cam 2")}

PayloadNames == {Absent, JStr("Stick 2")}

\* Documents of a tally push
PayloadDocs ==
    {StatusDoc(v) : v \in PushStatuses \cup {JStr("live"), JObj(JStr("Live"))}}
    \cup {Doc(JStr("Live"), rec, recSt, Absent, Absent, Absent, Absent, Absent) :
             rec \in PayloadFlags, recSt \in PayloadFlagObjects}
    \cup {Doc(JStr("Preview"), Absent, Absent, str, strSt, Absent, Absent, Absent) :
             str \in PayloadFlags, strSt \in PayloadFlagObjects}
    \cup {Doc(Absent, Absent, Absent, Absent, Absent, obs, name, src) :
             obs \in {Absent, JBool(FALSE)}, name \in PayloadNames,
             src \in PayloadSources}

PayloadBodies == {NoBody, BadJson} \cup {JsonBody(doc) : doc \in PayloadDocs}

\* Answers to POST /api/heartbeat
PayloadHbResponses ==
    {[code |-> HTTP_OK,
      body |-> JsonBody(Doc(st, rec, Absent, Absent, Absent, Absent, Absent, src))] :
        st \in {Absent, JStr("Live")}, rec \in {Absent, JBool(TRUE)},
        src \in PayloadSources}
    \cup {[code |-> HTTP_OK, body |-> BadJson],
          [code |-> HTTP_NOT_FOUND, body |-> NoBody],
          [code |-> HTTP_SERVER_ERROR, body |-> NoBody],
          [code |-> -1, body |-> NoBody]}

PayloadForms ==
    {Form("10.0.0.5", name, 0, src, led) :
       name \in {"", "Stick 2"}, src \in {"", "Cam 1"}, led \in BOOLEAN}

\* The answer of the server while setup() runs
SetupNet ==
    [reg |-> HTTP_OK,
     hb |-> [code |-> HTTP_OK, body |-> JsonBody(StatusDoc(Absent))]]

\* The device as setup() leaves it with a stored configuration and a server
\* that accepts it
InitHandlers ==
    /\ dev \in {setup(StartStep(InitDev(StoredConfig("10.0.0.5", DEFAULT_SERVER_PORT,
                                                      DEFAULT_DEVICE_NAME, src, "", FALSE)),
                                 "setup"), TRUE, 0, SetupNet) :
                  src \in {"", "Cam 1"}}
    /\ wifi = TRUE
    /\ now = 0
    /\ pc = "handlers"

\* The result of a handler, with the request and the code of the answer
\* entered in the log
Served(d, req, code) == [d EXCEPT !.req = req, !.reply = code]

ServePush ==
    /\ pc = "handlers"
    /\ \E body \in PayloadBodies :
         dev' = Served(handleClient(StartStep(dev, "push"), TallyPush(body)),
                       TallyPush(body), tallyReply(body))
    /\ UNCHANGED <<wifi, now, pc>>

ServeForm ==
    /\ pc = "handlers"
    /\ \E form \in PayloadForms :
         dev' = Served(handleClient(StartStep(dev, "config"), ConfigPost(form)),
                       ConfigPost(form), HTTP_SEE_OTHER)
    /\ UNCHANGED <<wifi, now, pc>>

\* sendHeartbeat() runs and the server answers; hb is entered in the log in
\* the place of a request
HeartbeatAnswer ==
    /\ pc = "handlers"
    /\ \E hb \in PayloadHbResponses :
         dev' = Served(sendHeartbeat(StartStep(dev, "heartbeat"), wifi, now,
                                     [reg |-> HTTP_OK, hb |-> hb]),
                       [kind |-> "answer", hb |-> hb], hb.code)
    /\ UNCHANGED <<wifi, now, pc>>

\* The single click of button B
ClickToggle ==
    /\ pc = "handlers"
    /\ dev' = Served(toggleLED(StartStep(dev, "toggle")), NoRequest, 0)
    /\ UNCHANGED <<wifi, now, pc>>

NextHandlers ==
    \/ ServePush
    \/ ServeForm
    \/ HeartbeatAnswer
    \/ ClickToggle

SpecHandlers == InitHandlers /\ [][NextHandlers]_vars

(* The LED.  The handlers that change what updateLED() reads are applied   *)
(* one at a time, the LED block of loop() runs, the link comes and goes    *)
(* and time passes.  WiFi.status() is read by updateLED() itself, so the   *)
(* link it sees is the link of that moment.                                *)

LedBodies == {JsonBody(StatusDoc(JStr(s))) : s \in {"Live", "Preview", "Idle"}}

LedForms == {Form("10.0.0.5", "", 0, "", led) : led \in BOOLEAN}

LedHbResponses ==
    {[code |-> -1, body |-> NoBody],
     [code |-> HTTP_OK, body |-> JsonBody(StatusDoc(Absent))]}

\* The device as setup() leaves it, with the preference stored either way,
\* the access point found or not
InitLed ==
    /\ wifi \in BOOLEAN
    /\ dev \in {setup(StartStep(InitDev(StoredConfig("10.0.0.5", DEFAULT_SERVER_PORT,
                                                      DEFAULT_DEVICE_NAME, "", "", led)),
                                 "setup"), wifi, 0, SetupNet) :
                  led \in BOOLEAN}
    /\ now = 0
    /\ pc = "led"

LedPush ==
    /\ pc = "led"
    /\ \E body \in LedBodies :
         dev' = handleClient(StartStep(dev, "push"), TallyPush(body))
    /\ UNCHANGED <<wifi, now, pc>>

LedForm ==
    /\ pc = "led"
    /\ \E form \in LedForms :
         dev' = handleConfigPostPin(StartStep(dev, "config"), form, wifi, now)
    /\ UNCHANGED <<wifi, now, pc>>

LedHeartbeat ==
    /\ pc = "led"
    /\ wifi
    /\ ~dev.configMode
    /\ \E hb \in LedHbResponses :
         dev' = sendHeartbeat(StartStep(dev, "heartbeat"), wifi, now,
                              [reg |-> HTTP_OK, hb |-> hb])
    /\ UNCHANGED <<wifi, now, pc>>

\* The single click of button B
LedToggle ==
    /\ pc = "led"
    /\ dev' = toggleLEDPin(StartStep(dev, "toggle"), wifi, now)
    /\ UNCHANGED <<wifi, now, pc>>

\* The LED block of loop()
LedLoop ==
    /\ pc = "led"
    /\ ~dev.configMode
    /\ dev' = loopLED(StartStep(dev, "updateLED"), wifi, now)
    /\ UNCHANGED <<wifi, now, pc>>

LedTick ==
    /\ pc = "led"
    /\ now + LedTickMs <= MaxLedTicks * LedTickMs
    /\ now' = now + LedTickMs
    /\ dev' = StartStep(dev, "tick")
    /\ UNCHANGED <<wifi, pc>>

LedLink ==
    /\ pc = "led"
    /\ ~dev.configMode
    /\ wifi' = ~wifi
    /\ dev' = StartStep(dev, "link")
    /\ UNCHANGED <<now, pc>>

NextLed ==
    \/ LedPush
    \/ LedForm
    \/ LedHeartbeat
    \/ LedToggle
    \/ LedLoop
    \/ LedTick
    \/ LedLink

SpecLed == InitLed /\ [][NextLed]_vars

----------------------------------------------------------------------------
(* Button B in real time.  The device is connected and registered and its  *)
(* WiFi link stays up; loop() runs iteration after iteration, each one     *)
(* reading the button at its start, and the user performs one gesture.     *)
(* Times are in ms.                                                        *)

\* What the user does: the intervals [from, to) in which the button is down
Gestures ==
    [click |-> << <<1000, 1100>> >>,
     hold1600 |-> << <<1000, 2600>> >>,
     hold8000 |-> << <<1000, 9000>> >>,
     twoHolds |-> << <<1000, 4000>>, <<4500, 7500>> >>,
     double |-> << <<1000, 1150>>, <<1300, 1450>> >>,
     doubleHeld |-> << <<1000, 1200>>, <<1400, 2400>> >>,
     apart |-> << <<1000, 1150>>, <<2000, 2150>> >>]

\* The number of the press that holds the button down at time x; 0 if the
\* button is up
PressAt(g, x) ==
    LET on == {i \in DOMAIN g : g[i][1] <= x /\ x < g[i][2]}
    IN  IF on = {} THEN 0 ELSE CHOOSE i \in on : TRUE

\* What M5.update() reads at time x
SampleAt(g, x) == Sample(PressAt(g, x) # 0, PressAt(g, x))

\* What the updates of showNetworkInfo() read when it starts at time x
PollsAt(g, x) ==
    [i \in 1..(INFO_TIME \div INFO_POLL) |-> SampleAt(g, x + INFO_POLL * (i - 1))]

\* When the last press of the gesture ends
GestureEnd(g) == g[Len(g)][2]

\* The time an iteration spends between M5.update() and handleButtonB():
\* next to none, or a slow HTTP exchange
Work == {0, 800}

\* The first iteration starts at any phase of the loop period
Phases == {50 * k : k \in 0..15}

InitClick ==
    /\ dev \in {[setup(StartStep(InitDev(StoredConfig("10.0.0.5", DEFAULT_SERVER_PORT,
                                                       DEFAULT_DEVICE_NAME, "", "", FALSE)),
                                  "setup"), TRUE, 0, SetupNet)
                   EXCEPT !.gesture = g] : g \in DOMAIN Gestures}
    /\ wifi = TRUE
    /\ now \in Phases
    /\ pc = "click"

\* The actions of the button the step fired, added to the counts
Counted(d) ==
    [d EXCEPT !.clicks = [long |-> @.long + (IF d.longPressed THEN 1 ELSE 0),
                          single |-> @.single + (IF d.singleClicked THEN 1 ELSE 0),
                          double |-> @.double + (IF d.doubleClicked THEN 1 ELSE 0)]]

\* One iteration of loop(), with no web request waiting.  A connected
\* iteration ends with delay(LOOP_DELAY), one without WiFi with
\* delay(LINK_DOWN_DELAY).
ClickLoop ==
    /\ pc = "click"
    /\ now <= MaxClickTime
    /\ \E work \in Work :
         LET g == Gestures[dev.gesture]
             link == wifi
             d0 == M5update(StartStep(dev, "loop"), SampleAt(g, now))
             d1 == loopHead(d0, link, now, now, [btnALong |-> FALSE, net |-> SetupNet])
             in == [link |-> link, btnB |-> FALSE, net |-> SetupNet,
                    polls |-> PollsAt(g, now + work)]
             d2 == IF d1.path = "connected"
                   THEN loopTail(handleClient(d1, NoRequest), link, now + work, in)
                   ELSE d1
         IN  /\ dev' = Counted(d2)
             /\ now' = IF d1.path = "connected"
                       THEN now + work + d2.elapsed + LOOP_DELAY
                       ELSE now + LINK_DOWN_DELAY
    /\ UNCHANGED <<wifi, pc>>

NextClick == ClickLoop

SpecClick == InitClick /\ [][NextClick]_vars

----------------------------------------------------------------------------
(* Button B in real time while the WiFi link comes and goes: an iteration  *)
(* of loop() that finds the link down reads the button in M5.update() and  *)
(* returns before handleButtonB().  The user presses the button twice, the *)
(* second time a second after the first.                                   *)

ApartGestures == {"apart"}

InitCadence ==
    /\ dev \in {[setup(StartStep(InitDev(StoredConfig("10.0.0.5", DEFAULT_SERVER_PORT,
                                                       DEFAULT_DEVICE_NAME, "", "", FALSE)),
                                  "setup"), TRUE, 0, SetupNet)
                   EXCEPT !.gesture = g] : g \in ApartGestures}
    /\ wifi = TRUE
    /\ now \in Phases
    /\ pc = "click"

CadenceLoop ==
    /\ now <= MaxCadenceTime
    /\ ClickLoop

CadenceLinkDown ==
    /\ pc = "click"
    /\ wifi
    /\ wifi' = FALSE
    /\ UNCHANGED <<dev, now, pc>>

CadenceLinkUp ==
    /\ pc = "click"
    /\ ~wifi
    /\ wifi' = TRUE
    /\ UNCHANGED <<dev, now, pc>>

NextCadence ==
    \/ CadenceLoop
    \/ CadenceLinkDown
    \/ CadenceLinkUp

SpecCadence == InitCadence /\ [][NextCadence]_vars

----------------------------------------------------------------------------
(* The power governor.  The device has run setup(); from then on           *)
(* updatePowerState() is called with what the gauge reads, button A is     *)
(* pressed, and time passes.  enterPowerSaveMode() and dimDisplay() are    *)
(* the two functions of the firmware that switch power saving on; they are *)
(* steps of their own.                                                     *)

\* What the gauge reads: 14 %, 15 %, 40 %, 41 %
GovReadings ==
    {Reading(3240, 0), Reading(3250, 0), Reading(3467, 0), Reading(3474, 0)}

InitGovernor ==
    /\ dev \in {initPowerManagement(
                   setup(StartStep(InitDev(p), "setup"), TRUE, 0, QuietNet),
                   0, r) :
                   p \in InitPrefs \ {EmptyPrefs}, r \in GovReadings}
    /\ wifi = TRUE
    /\ now = 0
    /\ pc = "governor"

GovTick ==
    /\ pc = "governor"
    /\ now + GovTickMs <= MaxGovTicks * GovTickMs
         \/ (/\ now >= INITIAL_AWAKE_PERIOD
             /\ now + GovTickMs <= INITIAL_AWAKE_PERIOD + MaxGovTicks * GovTickMs)
    /\ now' = now + GovTickMs
    /\ dev' = StartStep(dev, "tick")
    /\ UNCHANGED <<wifi, pc>>

\* The initial awake period goes by.
GovWait ==
    /\ pc = "governor"
    /\ now < INITIAL_AWAKE_PERIOD
    /\ now' = now + INITIAL_AWAKE_PERIOD
    /\ dev' = StartStep(dev, "wait")
    /\ UNCHANGED <<wifi, pc>>

\* An iteration of loop()
GovPowerState ==
    /\ pc = "governor"
    /\ \E r \in GovReadings :
         dev' = loopPower(StartStep(dev, "updatePowerState"), now, r)
    /\ UNCHANGED <<wifi, now, pc>>

\* M5.BtnA.wasPressed() in loop()
GovButtonA ==
    /\ pc = "governor"
    /\ dev' = loopButtonA(StartStep(dev, "buttonA"), now)
    /\ UNCHANGED <<wifi, now, pc>>

GovPowerSave ==
    /\ pc = "governor"
    /\ dev' = enterPowerSaveMode(StartStep(dev, "enterPowerSaveMode"))
    /\ UNCHANGED <<wifi, now, pc>>

GovDim ==
    /\ pc = "governor"
    /\ dev' = dimDisplay(StartStep(dev, "dimDisplay"))
    /\ UNCHANGED <<wifi, now, pc>>

NextGovernor ==
    \/ GovTick
    \/ GovWait
    \/ GovPowerState
    \/ GovButtonA
    \/ GovPowerSave
    \/ GovDim

SpecGovernor == InitGovernor /\ [][NextGovernor]_vars

(* The power state as the firmware drives it: loop() calls                 *)
(* updatePowerState(), the button A block and performStabilityCheck();     *)
(* enterPowerSaveMode(), dimDisplay(), enableDeepSleep() and               *)
(* enterDeepSleep() have no call site that loop() or a handler reaches.    *)

AwakeStability ==
    /\ pc = "governor"
    /\ dev' = performStabilityCheck(StartStep(dev, "performStabilityCheck"), now)
    /\ UNCHANGED <<wifi, now, pc>>

NextAwake ==
    \/ GovTick
    \/ GovWait
    \/ GovPowerState
    \/ GovButtonA
    \/ AwakeStability

SpecAwake == InitGovernor /\ [][NextAwake]_vars

----------------------------------------------------------------------------
(* The battery gauge.  updateBatteryStatus() is applied once to a device   *)
(* with a given last accepted percentage, sleep arming and charging        *)
(* history, at boot or later, for every reading of the gauge.              *)

\* Usable voltages, in whole millivolts, and some that are not
PlausibleMv == 2500..5000
FaultMv == {0, 2000, 2499, 5001, 5500}

\* Charge currents in mA: not charging, topping off, charging
ChargeCurrents == {0, 10, 200}

BatteryReadings ==
    {Reading(mv, ma) : mv \in PlausibleMv \cup FaultMv, ma \in ChargeCurrents}

\* batteryPercent and deepSleepEnabled before the call
BatteryBefore ==
    {[percent |-> 80, armed |-> TRUE], [percent |-> 10, armed |-> FALSE],
     [percent |-> 100, armed |-> TRUE]}

InitBattery ==
    /\ dev \in {[setup(StartStep(InitDev(p), "setup"), TRUE, 0, QuietNet)
                   EXCEPT !.batteryPercent = b.percent,
                          !.deepSleepEnabled = b.armed,
                          !.wasChargingComplete = c] :
                   p \in InitPrefs \ {EmptyPrefs}, b \in BatteryBefore,
                   c \in BOOLEAN}
    /\ wifi = TRUE
    /\ now = 0
    /\ pc = "battery"

BatteryTick ==
    /\ pc = "battery"
    /\ dev.battery = ""
    /\ now + BatteryTickMs <= MaxBatteryTicks * BatteryTickMs
    /\ now' = now + BatteryTickMs
    /\ UNCHANGED <<dev, wifi, pc>>

BatteryGauge ==
    /\ pc = "battery"
    /\ dev.battery = ""
    /\ \E r \in BatteryReadings :
         dev' = updateBatteryStatus(StartStep(dev, "updateBatteryStatus"), now, r)
    /\ UNCHANGED <<wifi, now, pc>>

NextBattery ==
    \/ BatteryTick
    \/ BatteryGauge

SpecBattery == InitBattery /\ [][NextBattery]_vars

----------------------------------------------------------------------------
(* The status endpoints.  The device is connected and registered; pushes   *)
(* and heartbeat answers change its tally state, the config form changes   *)
(* its configuration, and GET /status and GET /api/device-info are served. *)

StatusRequests == {GetStatus, GetDeviceInfo}

InitStatus ==
    /\ dev \in {setup(StartStep(InitDev(StoredConfig("10.0.0.5", DEFAULT_SERVER_PORT,
                                                      DEFAULT_DEVICE_NAME, "Cam 1", "", FALSE)),
                                 "setup"), TRUE, 0, SetupNet)}
    /\ wifi = TRUE
    /\ now = 0
    /\ pc = "status"

StatusPush ==
    /\ pc = "status"
    /\ \E body \in PushBodies :
         dev' = handleClient(StartStep(dev, "push"), TallyPush(body))
    /\ UNCHANGED <<wifi, now, pc>>

StatusForm ==
    /\ pc = "status"
    /\ \E form \in PayloadForms :
         dev' = handleClient(StartStep(dev, "config"), ConfigPost(form))
    /\ UNCHANGED <<wifi, now, pc>>

StatusHeartbeat ==
    /\ pc = "status"
    /\ \E hb \in HbResponses :
         dev' = sendHeartbeat(StartStep(dev, "heartbeat"), wifi, now,
                              [reg |-> HTTP_OK, hb |-> hb])
    /\ UNCHANGED <<wifi, now, pc>>

\* GET /status or GET /api/device-info is served; the request and the
\* document sent are entered in the log
StatusGet ==
    /\ pc = "status"
    /\ \E req \in StatusRequests :
         LET d == handleClient(StartStep(dev, "get"), req)
         IN  dev' = [Served(d, req, HTTP_OK) EXCEPT !.response = getResponse(d, req)]
    /\ UNCHANGED <<wifi, now, pc>>

NextStatus ==
    \/ StatusPush
    \/ StatusForm
    \/ StatusHeartbeat
    \/ StatusGet

SpecStatus == InitStatus /\ [][NextStatus]_vars

----------------------------------------------------------------------------
(* The configuration store across reboots.  The device powers up with a    *)
(* flash store that this firmware, an earlier firmware or nobody wrote;    *)
(* loadConfig() runs, the web form changes and saves the configuration,    *)
(* the device is reset to factory defaults or restarted, and powers up     *)
(* again.                                                                  *)

\* A complete store of another firmware
OtherStore(version) ==
    [StoredConfig("10.0.0.9", 3009, "Old Stick", "Cam 9", "old-tally", TRUE)
       EXCEPT !.version = version]

\* Stores at the first power-up: empty, of this firmware, of a firmware with
\* another CONFIG_VERSION, and one that has the fields but no version tag
ConfigStores ==
    {EmptyPrefs,
     StoredConfig("10.0.0.5", DEFAULT_SERVER_PORT, "Stick 1", "Cam 1", "tally-1", TRUE),
     OtherStore("1.0"), OtherStore("2.1"),
     [k \in DOMAIN OtherStore("1.0") \ {"version"} |-> OtherStore("1.0")[k]]}

ConfigForms ==
    {Form(ip, name, port, src, led) :
       ip \in {"10.0.0.5", "10.0.0.6"}, name \in {"", "Stick 2"},
       port \in {0, 3006}, src \in {"", "Cam 2"}, led \in BOOLEAN}

InitConfig ==
    /\ dev \in {InitDev(p) : p \in ConfigStores}
    /\ wifi = TRUE
    /\ now = 0
    /\ pc = "config"

\* setup() calls loadConfig()
ConfigLoad ==
    /\ pc = "config"
    /\ dev.op = "power-up"
    /\ dev' = loadConfig(StartStep(dev, "loadConfig"))
    /\ UNCHANGED <<wifi, now, pc>>

ConfigForm ==
    /\ pc = "config"
    /\ dev.op # "power-up"
    /\ ~dev.restart
    /\ \E form \in ConfigForms :
         dev' = handleClient(StartStep(dev, "config"), ConfigPost(form))
    /\ UNCHANGED <<wifi, now, pc>>

\* GET /reset restarts the device; button A held resets it to factory
\* defaults
ConfigRestart ==
    /\ pc = "config"
    /\ dev.op # "power-up"
    /\ ~dev.restart
    /\ \/ dev' = handleClient(StartStep(dev, "reset"), GetReset)
       \/ dev' = factoryReset(StartStep(dev, "factoryReset"))
    /\ UNCHANGED <<wifi, now, pc>>

\* The reboot: RAM is lost, the flash store kept
ConfigBoot ==
    /\ pc = "config"
    /\ dev.restart
    /\ dev' = InitDev(dev.prefs)
    /\ UNCHANGED <<wifi, now, pc>>

NextConfig ==
    \/ ConfigLoad
    \/ ConfigForm
    \/ ConfigRestart
    \/ ConfigBoot

SpecConfig == InitConfig /\ [][NextConfig]_vars

----------------------------------------------------------------------------
(* The ESP32-1732S019 variant (obs_tally_ultimate.cpp).  Its functions     *)
(* carry the names of the source with U_ in front, where the M5StickC      *)
(* firmware has a function of the same name.  dev is the record of the     *)
(* globals of this firmware.                                               *)

U_HEARTBEAT_INTERVAL == 30000
U_DEFAULT_SERVER_URL == Url("192.168.1.100", 3000)

\* A request the firmware sent and the code it got (<= 0: no response)
U_Event(kind, code) == [kind |-> kind, code |-> code]

\* The body of POST /api/tally
U_TallyDoc(ts, st, name, src) ==
    [tallyStatus |-> ts, status |-> st,
     deviceName |-> name, assignedSource |-> src]

\* Globals at power-up (obs_tally_ultimate.cpp:105-133)
U_InitDev(prefs) ==
    [deviceName |-> DEFAULT_DEVICE_NAME,
     serverURL |-> U_DEFAULT_SERVER_URL,
     assignedSource |-> "",
     currentStatus |-> "OFFLINE",
     isConnected |-> FALSE,
     isRegistered |-> FALSE,
     webServerRunning |-> FALSE,
     lastHeartbeatTime |-> 0,
     prefs |-> prefs,
     restart |-> FALSE,
     \* the log of the last step
     op |-> "power-up",
     sent |-> <<>>,
     req |-> NoRequest,
     reply |-> 0]

U_StartStep(d, op) == [d EXCEPT !.op = op, !.sent = <<>>, !.req = NoRequest, !.reply = 0]

U_loadConfiguration(d) ==
    [d EXCEPT !.deviceName = PrefGet(d.prefs, "deviceName", DEFAULT_DEVICE_NAME),
              !.serverURL = PrefGet(d.prefs, "serverURL", U_DEFAULT_SERVER_URL)]

U_saveConfiguration(d) ==
    [d EXCEPT !.prefs = [deviceName |-> d.deviceName, serverURL |-> d.serverURL]]

U_updateStatus(d, status) == [d EXCEPT !.currentStatus = status]

\* code: the answer of the server to POST /api/esp32/register
U_registerDevice(d, code) ==
    IF ~d.isConnected THEN d
    ELSE LET d1 == [d EXCEPT !.sent = Append(@, U_Event("register", code))]
         IN  IF code > 0
             THEN IF code = HTTP_OK
                  THEN U_updateStatus([d1 EXCEPT !.isRegistered = TRUE], "READY")
                  ELSE U_updateStatus(d1, "ERROR")
             ELSE U_updateStatus(d1, "ERROR")

\* resp: the answer of the server to POST /api/heartbeat; a body that does
\* not parse leaves the response document empty
U_sendHeartbeat(d, resp) ==
    IF ~d.isConnected \/ ~d.isRegistered THEN d
    ELSE LET d1 == [d EXCEPT !.sent = Append(@, U_Event("heartbeat", resp.code))]
         IN  IF resp.code > 0
             THEN IF resp.code = HTTP_OK
                  THEN IF resp.body.t = "json" /\ resp.body.doc.status.t = "str"
                       THEN U_updateStatus(d1, resp.body.doc.status.s)
                       ELSE d1
                  ELSE U_updateStatus(d1, "ERROR")
             ELSE U_updateStatus(d1, "ERROR")

\* handleTallyUpdate()
U_handleTallyUpdate(d, body) ==
    IF body.t # "json" THEN d
    ELSE LET doc == body.doc
             d1 == IF doc.assignedSource.t = "str"
                   THEN [d EXCEPT !.assignedSource = doc.assignedSource.s] ELSE d
             d2 == IF doc.deviceName.t = "str" /\ doc.deviceName.s # d1.deviceName
                   THEN U_saveConfiguration([d1 EXCEPT !.deviceName = doc.deviceName.s])
                   ELSE d1
         IN  IF doc.tallyStatus.t = "str" THEN U_updateStatus(d2, doc.tallyStatus.s)
             ELSE IF doc.status.t = "str" THEN U_updateStatus(d2, doc.status.s)
             ELSE d2

\* The code handleTallyUpdate() answers with
U_tallyReply(body) ==
    IF body.t # "json" THEN HTTP_BAD_REQUEST
    ELSE IF body.doc.tallyStatus.t = "str" \/ body.doc.status.t = "str" THEN HTTP_OK
    ELSE HTTP_BAD_REQUEST

\* POST /config-save.  form: the arguments of the request, Absent where
\* hasArg() is false
U_ConfigSave(name, url) == [kind |-> "config-save", deviceName |-> name, serverURL |-> url]

U_handleConfigSave(d, form) ==
    LET d1 == [d EXCEPT !.deviceName = IF form.deviceName = Absent THEN @
                                       ELSE form.deviceName.s,
                        !.serverURL = IF form.serverURL = Absent THEN @
                                      ELSE form.serverURL.s]
    IN  [U_saveConfiguration(d1) EXCEPT !.restart = TRUE]

U_handleRestart(d) == [d EXCEPT !.restart = TRUE]

U_handleFactoryReset(d) == [d EXCEPT !.prefs = EmptyPrefs, !.restart = TRUE]

\* server.handleClient(): the handler of the request that is waiting
U_handleClient(d, req) ==
    IF ~d.webServerRunning THEN d
    ELSE CASE req.kind = "tally" ->
                [U_handleTallyUpdate(d, req.body)
                   EXCEPT !.op = "tally", !.req = req, !.reply = U_tallyReply(req.body)]
           [] req.kind = "config-save" -> U_handleConfigSave(d, req)
           [] req.kind = "reset" -> U_handleRestart(d)
           [] req.kind = "factory-reset" -> U_handleFactoryReset(d)
           [] OTHER -> d

\* setupWiFi().  c: wifiManager.autoConnect() connected; the portal
\* parameters are left as they were.
U_setupWiFi(d, c) ==
    IF ~c THEN [d EXCEPT !.restart = TRUE]
    ELSE [d EXCEPT !.isConnected = TRUE]

\* setup().  w: WiFi.status() == WL_CONNECTED after setupWiFi()
U_setup(d, c, w, code) ==
    LET d1 == U_setupWiFi(U_loadConfiguration(d), c)
    IN  IF d1.restart THEN d1
        ELSE IF w
        THEN U_updateStatus(U_registerDevice([d1 EXCEPT !.webServerRunning = TRUE], code),
                            "READY")
        ELSE U_updateStatus(d1, "NO_WIFI")

\* loop(), the WiFi check
U_loopWiFi(d, w, code) ==
    IF ~w
    THEN IF d.isConnected
         THEN U_updateStatus([d EXCEPT !.isConnected = FALSE], "NO_WIFI")
         ELSE d
    ELSE IF ~d.isConnected
         THEN U_updateStatus(
                  U_registerDevice([d EXCEPT !.isConnected = TRUE,
                                             !.webServerRunning = TRUE], code),
                  "READY")
         ELSE d

\* loop(), the heartbeat trigger
U_loopHeartbeat(d, t, in) ==
    IF d.isConnected /\ t - d.lastHeartbeatTime > U_HEARTBEAT_INTERVAL
    THEN [U_sendHeartbeat(d, in.hb) EXCEPT !.lastHeartbeatTime = t]
    ELSE d

\* loop(), the BOOT button held for more than 5 s
U_loopButton(d, held) ==
    IF held THEN [d EXCEPT !.prefs = EmptyPrefs, !.restart = TRUE] ELSE d

\* loop().  w: WiFi.status() == WL_CONNECTED; t: millis(); in: the request
\* that is waiting, the answers of the server, the BOOT button
U_loop(d, w, t, in) ==
    LET d1 == U_handleClient(d, in.req)
    IN  IF d1.restart THEN d1
        ELSE U_loopButton(U_loopHeartbeat(U_loopWiFi(d1, w, in.reg), t, in), in.held)

(* The variant, its server, its web clients and its WiFi link, for ever *)

U_TallyBodies ==
    {NoBody, BadJson}
    \cup {JsonBody(U_TallyDoc(ts, st, name, src)) :
            ts \in {Absent, JStr("Live")}, st \in {Absent, JStr("Preview")},
            name \in {Absent, JStr("Stick 2")}, src \in {Absent, JStr("Cam 2")}}

U_Requests ==
    {NoRequest, GetReset, [kind |-> "factory-reset"],
     U_ConfigSave(JStr("Stick 2"), Absent),
     TallyPush(JsonBody(U_TallyDoc(JStr("Live"), Absent, Absent, Absent)))}

U_HbResponses ==
    {[code |-> HTTP_OK, body |-> JsonBody(StatusDoc(JStr("Idle")))],
     [code |-> HTTP_OK, body |-> BadJson],
     [code |-> -1, body |-> NoBody]}

U_Inputs ==
    [req : U_Requests, reg : {HTTP_OK, HTTP_SERVER_ERROR}, hb : U_HbResponses,
     held : BOOLEAN]

U_Init ==
    /\ dev = U_InitDev(EmptyPrefs)
    /\ wifi = FALSE
    /\ now = 0
    /\ pc = "boot"

\* ESP.restart(): RAM is lost, the flash store is kept
U_Restart(d) == [U_InitDev(d.prefs) EXCEPT !.op = d.op, !.sent = d.sent,
                                           !.req = d.req, !.reply = d.reply]

\* Power-up or reboot: setup() runs; a portal that times out restarts
U_Setup ==
    /\ pc = "boot"
    /\ \E c \in BOOLEAN, code \in {HTTP_OK, HTTP_SERVER_ERROR} :
         LET d1 == U_setup(U_StartStep(dev, "setup"), c, c, code)
         IN  IF d1.restart
             THEN /\ dev' = U_Restart(d1)
                  /\ wifi' = FALSE
                  /\ pc' = "boot"
             ELSE /\ dev' = d1
                  /\ wifi' = TRUE
                  /\ pc' = "run"
    /\ now' = 0

\* One iteration of loop()
U_Loop ==
    /\ pc = "run"
    /\ \E in \in U_Inputs :
         LET d1 == U_loop(U_StartStep(dev, "loop"), wifi, now, in)
         IN  IF d1.restart
             THEN /\ dev' = U_Restart(d1)
                  /\ wifi' = FALSE
                  /\ now' = 0
                  /\ pc' = "boot"
             ELSE /\ dev' = d1
                  /\ UNCHANGED <<wifi, now, pc>>

\* delay(10) at the end of the iterations has added up to LiveTickMs
U_Tick ==
    /\ pc = "run"
    /\ now' = Later(now)
    /\ dev' = IF now + LiveTickMs <= LiveMaxTime THEN dev
              ELSE [dev EXCEPT !.lastHeartbeatTime = Earlier(@)]
    /\ UNCHANGED <<wifi, pc>>

U_LinkDown ==
    /\ pc = "run"
    /\ wifi
    /\ wifi' = FALSE
    /\ UNCHANGED <<dev, now, pc>>

U_LinkUp ==
    /\ pc = "run"
    /\ ~wifi
    /\ wifi' = TRUE
    /\ UNCHANGED <<dev, now, pc>>

U_Next ==
    \/ U_Setup
    \/ U_Loop
    \/ U_Tick
    \/ U_LinkDown
    \/ U_LinkUp

\* loop() is called for ever and every iteration ends in delay(10)
U_Fairness ==
    /\ WF_vars(U_Setup)
    /\ WF_vars(U_Loop)
    /\ SF_vars(U_Tick)

SpecUltimate == U_Init /\ [][U_Next]_vars /\ U_Fairness

(* The handlers of the variant that write its status and configuration,   *)
(* applied one after the other to a device that setup() has connected     *)

U_InitHandlers ==
    /\ dev \in {U_setup(U_StartStep(U_InitDev(EmptyPrefs), "setup"), TRUE, TRUE, code) :
                  code \in {HTTP_OK, HTTP_SERVER_ERROR}}
    /\ wifi = TRUE
    /\ now = 0
    /\ pc = "handlers"

U_ServePush ==
    /\ pc = "handlers"
    /\ \E body \in U_TallyBodies :
         dev' = U_handleClient(U_StartStep(dev, "push"), TallyPush(body))
    /\ UNCHANGED <<wifi, now, pc>>

U_HeartbeatAnswer ==
    /\ pc = "handlers"
    /\ \E hb \in U_HbResponses :
         dev' = U_sendHeartbeat(U_StartStep(dev, "heartbeat"), hb)
    /\ UNCHANGED <<wifi, now, pc>>

U_NextHandlers ==
    \/ U_ServePush
    \/ U_HeartbeatAnswer

SpecUltimateHandlers == U_InitHandlers /\ [][U_NextHandlers]_vars

----------------------------------------------------------------------------
(* Properties of the connectivity session and of the tally flags *)

IsHeartbeat(e) == e.kind = "heartbeat"
IsRegister(e) == e.kind = "register"
IsCall(e) == e.kind = "sendHeartbeat"

\* The log entries of the current iteration (or of setup())
Sent == {dev.sent[i] : i \in DOMAIN dev.sent}

\* C1: isProgram and isPreview are never both true, in any state reached by
\* pushes, heartbeat responses, link losses and registrations.
C1_ProgramExcludesPreview == ~(dev.isProgram /\ dev.isPreview)

\* C1, reached: the web handler has run in an iteration that also talked to
\* the server, and the device is on program.
C1_Witness ==
    /\ pc = "tail"
    /\ dev.isProgram
    /\ \E e \in Sent : IsHeartbeat(e) /\ e.code = HTTP_OK

\* C2: a call of sendHeartbeat whose heartbeat was answered 404 returns
\* with isRegistered = false and serverConnected = false.
C2_NotFoundClearsFlags ==
    \A c \in Sent :
        (IsCall(c) /\ HTTP_NOT_FOUND \in c.hbCodes)
            => (~c.regAfter /\ ~c.connAfter)

\* C2, reached: a call that entered registered and got the 404.
C2_Witness ==
    \E c \in Sent : IsCall(c) /\ c.regBefore /\ HTTP_NOT_FOUND \in c.hbCodes

C4_HeartbeatOnlyWhenRegistered ==
    \A e \in Sent : IsHeartbeat(e) => (e.regBefore /\ e.validBefore)

\* C4, reached: a heartbeat in the iteration that found the link restored.
C4_Witness ==
    /\ dev.restored
    /\ \E e \in Sent : IsHeartbeat(e)

\* The log entries the step from the unprimed to the primed state added
NewSent ==
    IF pc \in {"client", "tail"}
    THEN {dev'.sent[i] : i \in (DOMAIN dev'.sent) \ (DOMAIN dev.sent)}
    ELSE {dev'.sent[i] : i \in DOMAIN dev'.sent}

RegisteredOnlyBy200 ==
    /\ (~dev.isRegistered /\ dev'.isRegistered)
           => \E e \in NewSent : IsRegister(e) /\ e.code = HTTP_OK
    /\ \A e \in NewSent :
           /\ (IsRegister(e) \/ IsHeartbeat(e))
                  => ((~e.regBefore /\ e.regAfter)
                          => (IsRegister(e) /\ e.code = HTTP_OK))
           /\ (IsRegister(e) /\ e.code # HTTP_OK) => ~e.regAfter

C6_LinkDownIsQuiet ==
    (dev.path \in {"down", "config"})
        => /\ ~dev.isRegistered
           /\ ~dev.serverConnected
           /\ dev.sent = <<>>
           /\ ~dev.announced

\* C6, reached: the loop has seen the link down on a device that had
\* been sending heartbeats.
C6_Witness ==
    /\ dev.path = "down"
    /\ dev.lastHeartbeatTime > 0

\* C7: after a heartbeat request, serverConnected is true if the answer
\* was 200 and false for any other outcome.
C7_ServerConnectedIsOutcome ==
    \A e \in Sent : IsHeartbeat(e) => (e.connAfter <=> (e.code = HTTP_OK))

\* C7, reached: a heartbeat that got no answer.
C7_Witness ==
    \E e \in Sent : IsHeartbeat(e) /\ e.code <= 0 /\ ~e.connAfter

\* C8 as stated: after the registration made by the heartbeat trigger of
\* loop() has failed, with the link up and before the clock has advanced,
\* the trigger of a following iteration does not register again.
C8_NoRetryNextIteration == ~dev.retriedNextIteration

\* C9: the request that follows a heartbeat answered 404 is a registration.
C9_RegisterAfterNotFound ==
    \A e \in Sent : ((IsRegister(e) \/ IsHeartbeat(e)) /\ e.after404) => IsRegister(e)

\* C9, reached: a registration that followed a 404.
C9_Witness ==
    \E e \in Sent : IsRegister(e) /\ e.after404

\* C10 as stated: the iteration of loop() that finds WiFi connected again,
\* with a server address configured, sends a registration request.
C10_RegisterOnLinkUp ==
    (pc = "run" /\ dev.path = "connected" /\ wifi
        /\ dev.restored /\ dev.addrAtLinkUp)
        => \E e \in Sent : IsRegister(e)


----------------------------------------------------------------------------
(* Properties of deep sleep *)

\* C11: enterDeepSleep never reaches the hardware sleep step while the
\* device is on program or on preview.
C11_NoSleepWhileTally == dev.asleep => ~(dev.isProgram \/ dev.isPreview)

\* C11, reached: enterDeepSleep was called on program or preview, with the
\* battery and the uptime that let a sleep through, and returned awake.
C11_Witness ==
    /\ dev.op = "enterDeepSleep"
    /\ dev.isProgram \/ dev.isPreview
    /\ dev.batteryPercent > DEEP_SLEEP_MIN_BATTERY
    /\ now >= DEEP_SLEEP_MIN_UPTIME
    /\ ~dev.asleep


----------------------------------------------------------------------------
(* Properties of the handlers *)

\* The step served a tally push whose body parsed
ValidPush == dev.op = "push" /\ dev.req.body.t = "json"

\* The document of the push the step served
PushDoc == dev.req.body.doc

\* C12: after a valid push, (isProgram, isPreview) is (true, false) for the
\* status "Live" or "Program", (false, true) for "Preview" and (false,
\* false) for any other or missing status, whatever the state before.
C12_TallyFromStatus ==
    ValidPush =>
      <<dev.isProgram, dev.isPreview>> =
        IF PushDoc.status \in {JStr("Live"), JStr("Program")} THEN <<TRUE, FALSE>>
        ELSE IF PushDoc.status = JStr("Preview") THEN <<FALSE, TRUE>>
        ELSE <<FALSE, FALSE>>

\* C12, reached: a push with the status "Program" was served.
C12_Witness == ValidPush /\ PushDoc.status = JStr("Program") /\ dev.isProgram

\* What C13 says of one flag: active of the structured object when that
\* object is there, else the bare boolean when it is there, else false
FlagOf(structured, bare) ==
    IF structured.t = "obj" THEN structured.m = JBool(TRUE)
    ELSE IF bare.t = "bool" THEN bare.b
    ELSE FALSE

\* C13: after a valid push, isRecording is recordingStatus.active if the
\* object is present, else the boolean recording if present, else false;
\* the same for isStreaming; whatever the values before.
C13_FlagsFromPayload ==
    ValidPush =>
      /\ dev.isRecording = FlagOf(PushDoc.recordingStatus, PushDoc.recording)
      /\ dev.isStreaming = FlagOf(PushDoc.streamingStatus, PushDoc.streaming)

\* C13, reached: a push whose recordingStatus.active is false and whose
\* bare recording is true was served, and isRecording is false.
C13_Witness ==
    /\ ValidPush
    /\ PushDoc.recordingStatus = JObj(JBool(FALSE))
    /\ PushDoc.recording = JBool(TRUE)
    /\ ~dev.isRecording


\* The assignedSource field of the payload a step handled: of the document
\* pushed, or of the document that answered the heartbeat; Absent if the
\* step handled no document
SourceField(d) ==
    IF d.op = "push" /\ d.req.body.t = "json" THEN d.req.body.doc.assignedSource
    ELSE IF d.op = "heartbeat" /\ d.req.hb.code = HTTP_OK /\ d.req.hb.body.t = "json"
    THEN d.req.hb.body.doc.assignedSource
    ELSE Absent

\* A push or a sendHeartbeat() changes assignedSource only if the payload
\* carries a non-empty assignedSource other than the current one.
SourceChangeGuarded ==
    (dev'.op \in {"push", "heartbeat"} /\ dev'.assignedSource # dev.assignedSource)
      => /\ SourceField(dev').t = "str"
         /\ SourceField(dev').s # ""
         /\ SourceField(dev').s # dev.assignedSource

\* C14 as stated: a server payload changes assignedSource only when its
\* assignedSource field is present, non-empty and different from the
\* current value, so an empty one never overwrites a non-empty source.
C14_SourceChangeGuarded == [][SourceChangeGuarded]_vars


\* The flash store holds the assigned source and the LED preference of d
Persisted(d) ==
    /\ PrefGet(d.prefs, "assigned_source", "") = d.assignedSource
    /\ PrefGet(d.prefs, "led_disabled", FALSE) = d.ledManuallyDisabled

\* A step that changed assignedSource or ledManuallyDisabled
ChangedSourceOrLed ==
    \/ dev'.assignedSource # dev.assignedSource
    \/ dev'.ledManuallyDisabled # dev.ledManuallyDisabled

\* C15: when a tally push, a heartbeat answer, the web config form or the
\* LED toggle of button B has changed assignedSource or ledManuallyDisabled,
\* the stored assigned_source and led_disabled equal the values in memory
\* at the return of the operation.
C15_WriteThrough ==
    [][(dev'.op \in {"push", "heartbeat", "config", "toggle"} /\ ChangedSourceOrLed)
         => Persisted(dev')]_vars

\* C15, reached: the LED toggle has just flipped the preference, on a device
\* whose assigned source a payload has changed before.
C15_Witness ==
    /\ dev.op = "toggle"
    /\ dev.ledManuallyDisabled
    /\ dev.assignedSource = "Cam 2"
    /\ Persisted(dev)


\* The tally state, the names and the flash store of d
Visible(d) ==
    [isPreview |-> d.isPreview, isProgram |-> d.isProgram,
     isRecording |-> d.isRecording, isStreaming |-> d.isStreaming,
     serverConnected |-> d.serverConnected, deviceName |-> d.deviceName,
     assignedSource |-> d.assignedSource, prefs |-> d.prefs]

\* A step that served a push with no body, or with a body that is no JSON
RejectedPush ==
    dev'.op = "push" /\ dev'.req.body.t \in {"none", "invalid"}

\* C16: a tally push with no body or with invalid JSON is answered 400 and
\* leaves the tally flags, serverConnected, deviceName, assignedSource and
\* the stored configuration as they were.
C16_BadPushRejected ==
    [][RejectedPush =>
         /\ dev'.reply = HTTP_BAD_REQUEST
         /\ Visible(dev') = Visible(dev)]_vars

\* C16, reached: a push that did not parse was served by a device that is
\* on program, recording, with a source assigned.
C16_Witness ==
    /\ dev.op = "push"
    /\ dev.req.body.t = "invalid"
    /\ dev.reply = HTTP_BAD_REQUEST
    /\ dev.isProgram /\ dev.isRecording
    /\ dev.assignedSource = "Cam 1"


\* C17: the same valid push applied a second time leaves the tally state,
\* the device name, the assigned source and the stored configuration as
\* the first application left them, whatever the state before the first.
C17_PushIdempotent ==
    ValidPush => Visible(handleClient(dev, dev.req)) = Visible(dev)

\* C17, reached: a push that carried a new name and a new source was
\* served, and the source was saved.
C17_Witness ==
    /\ ValidPush
    /\ PushDoc.deviceName = JStr("Stick 2")
    /\ PushDoc.assignedSource = JStr("Cam 2")
    /\ dev.deviceName = "Stick 2"
    /\ PrefGet(dev.prefs, "assigned_source", "") = "Cam 2"


----------------------------------------------------------------------------
(* Properties of button B *)

\* The gesture is over and the device has nothing left to do for it: the
\* last update read the button up, no click waits for its timeout, and no
\* press is held whose long press has not fired.
Settled ==
    /\ now >= GestureEnd(Gestures[dev.gesture])
    /\ ~dev.BtnB_state
    /\ ~dev.btnB_WaitingForDouble
    /\ ~(dev.btnB_IsPressed /\ ~dev.btnB_LongPressHandled)

\* C18 as stated: one press of button B held for 1600 ms fires exactly one
\* long press (the network page), no single click (the LED toggle) and no
\* double click.
C18_HoldIsLongPress ==
    (dev.gesture = "hold1600" /\ Settled)
      => dev.clicks = [long |-> 1, single |-> 0, double |-> 0]

\* C19 as stated: two presses, the second begun within DOUBLE_CLICK_TIME of
\* the first, fire exactly one double click (the forced heartbeat) and no
\* single click, also once the second is released and the timeout is over.
C19_DoubleIsDoubleClick ==
    (dev.gesture \in {"double", "doubleHeld"} /\ Settled)
      => dev.clicks.double = 1 /\ dev.clicks.single = 0

\* C20: the long press fires at most once for one press of the user: while
\* the button stays down, later calls of handleButtonB do not fire it
\* again; only a new press can.
C20_LongPressOncePerPress == ~dev.longRepeated

\* C20, reached: the long press has fired once, the network page is over,
\* and handleButtonB has run again with the button still down, past
\* LONG_PRESS_TIME, without firing.
C20_Witness ==
    /\ dev.gesture = "hold8000"
    /\ dev.op = "loop" /\ dev.path = "connected"
    /\ dev.clicks.long = 1
    /\ ~dev.longPressed
    /\ dev.BtnB_state
    /\ dev.btnB_IsPressed /\ dev.btnB_LongPressHandled

----------------------------------------------------------------------------
(* Properties of the power governor *)

\* A step in which a call of updatePowerState() passed its rate limit
PowerTickStep ==
    /\ dev'.op = "updatePowerState"
    /\ dev'.lastPowerStateUpdate # dev.lastPowerStateUpdate

\* C21: in Normal mode (neither power saving nor low battery) and with the
\* last user activity 61 s or more ago, the next tick of updatePowerState()
\* leaves powerSaveMode = true.
C21_InactivityEntersPowerSave ==
    [][(/\ pc = "governor"
        /\ ~dev.powerSaveMode
        /\ ~dev.lowBatteryMode
        /\ now - dev.lastActivity >= 61000
        /\ PowerTickStep)
       => dev'.powerSaveMode]_vars

\* What the code does instead: no tick of updatePowerState() ever leaves
\* power saving, a dimmed display or armed deep sleep behind.
C21_TickSwitchesPowerSavingOff ==
    [][(pc = "governor" /\ PowerTickStep)
       => (~dev'.powerSaveMode /\ ~dev'.displayDimmed /\ ~dev'.deepSleepEnabled)]_vars

ActivityStep == dev'.op = "buttonA" /\ dev'.path # "skipped"

\* What the call does with the power modes: without low battery it leaves
\* power saving off and the display bright, with low battery it leaves both
\* as they were
ActivityResetsModes ==
    IF ~dev.lowBatteryMode
    THEN ~dev'.powerSaveMode /\ ~dev'.displayDimmed
    ELSE /\ dev'.powerSaveMode = dev.powerSaveMode
         /\ dev'.displayDimmed = dev.displayDimmed

ActivityChangesNothing ==
    /\ dev'.lastActivity = dev.lastActivity
    /\ dev'.powerSaveMode = dev.powerSaveMode
    /\ dev'.displayDimmed = dev.displayDimmed
    /\ dev'.lowBatteryMode = dev.lowBatteryMode

\* C23, as stated: every call of updateActivity() from a button press
\* records the time of the activity and, unless lowBatteryMode is set,
\* leaves powerSaveMode and displayDimmed false; with lowBatteryMode set it
\* leaves the two as they were.
C23_ActivityRevertsToNormal ==
    [][(pc = "governor" /\ ActivityStep)
       => (dev'.lastActivity = now /\ ActivityResetsModes)]_vars

\* C23, amended: a call made 10 s or more after the last recorded activity
\* does that; a call made sooner changes neither the recorded time nor the
\* power modes.
C23_ActivityAfterTenSeconds ==
    [][(pc = "governor" /\ ActivityStep)
       => IF now - dev.lastActivity >= ACTIVITY_MIN_INTERVAL
          THEN dev'.lastActivity = now /\ ActivityResetsModes
          ELSE ActivityChangesNothing]_vars

\* A press of button A switched power saving off.
C23_Witness ==
    /\ pc = "governor"
    /\ dev.op = "buttonA"
    /\ dev.path = "reset"
    /\ dev.lastActivity = now
    /\ ~dev.powerSaveMode
    /\ ~dev.displayDimmed
    /\ ~dev.lowBatteryMode

----------------------------------------------------------------------------
(* Properties of the battery gauge *)

\* updateBatteryStatus() has run on a usable reading
Measured == pc = "battery" /\ dev.battery \in {"accepted", "rejected"}

\* A step in which updateBatteryStatus() ran
GaugeStep == pc = "battery" /\ dev'.op = "updateBatteryStatus"

\* The reading is outside 2.5 V .. 5.0 V
OutOfRange(mv) == mv < 2500 \/ mv > 5000

\* C24: the percentage updateBatteryStatus() computes from a voltage of
\* 2.5 V .. 5.0 V lies in 0..100 and is not above the percentage it computes,
\* with the same charge current, charging history and time, from the voltage
\* one millivolt higher.  Every millivolt of the range is read, so the
\* percentage is nowhere decreasing over the range.
C24_PercentMonotonic ==
    [][(GaugeStep /\ ~OutOfRange(dev'.gauge.mv))
       => /\ dev'.newBatteryPercent \in 0..100
          /\ ~OutOfRange(dev'.gauge.mv + 1)
               => dev'.newBatteryPercent
                    <= newBatteryPercent(dev, now,
                           Reading(dev'.gauge.mv + 1, dev'.gauge.ma))]_vars

\* 3.50 V was read and gave 45 %.
C24_Witness ==
    /\ Measured
    /\ dev.gauge.mv = 3500
    /\ dev.newBatteryPercent = 45

\* C25: a voltage of 4.10 V or more gives 100 %, a voltage of 3.60 V to
\* 3.80 V gives 60 to 85 %, and a usable voltage below 3.00 V gives 0 %.
C25_BandValues ==
    Measured =>
      /\ dev.gauge.mv >= 4100 => dev.newBatteryPercent = 100
      /\ dev.gauge.mv \in 3600..3800 => dev.newBatteryPercent \in 60..85
      /\ dev.gauge.mv < 3000 => dev.newBatteryPercent = 0

\* 3.70 V was read and gave 72 %.
C25_Witness ==
    /\ Measured
    /\ dev.gauge.mv = 3700
    /\ dev.newBatteryPercent = 72
    /\ dev.batteryPercent = 72

\* C26: after updateBatteryStatus() has read a voltage outside 2.5 V ..
\* 5.0 V, batteryPercent is 50 and deepSleepEnabled is false, whatever they
\* were before.
C26_FaultFallsBack ==
    (pc = "battery" /\ dev.battery # "" /\ OutOfRange(dev.gauge.mv))
      => (dev.batteryPercent = FALLBACK_PERCENT /\ ~dev.deepSleepEnabled)

\* 2.0 V was read with the battery at 80 %.
C26_Witness ==
    /\ pc = "battery"
    /\ dev.battery = "fault"
    /\ dev.gauge.mv = 2000
    /\ dev.batteryBefore = 80
    /\ dev.batteryPercent = FALLBACK_PERCENT
    /\ ~dev.deepSleepEnabled

\* C27, as stated: a reading outside 2.5 V .. 5.0 V leaves batteryPercent as
\* it was and disarms deep sleep.
C27_FaultKeepsPercent ==
    [][(GaugeStep /\ OutOfRange(dev'.gauge.mv))
       => (dev'.batteryPercent = dev.batteryPercent /\ ~dev'.deepSleepEnabled)]_vars

\* C27, amended: such a reading sets batteryPercent to 50, disarms deep
\* sleep, and leaves the charging history as it was.
C27_FaultSetsFallback ==
    [][(GaugeStep /\ OutOfRange(dev'.gauge.mv))
       => /\ dev'.batteryPercent = FALLBACK_PERCENT
          /\ ~dev'.deepSleepEnabled
          /\ dev'.wasChargingComplete = dev.wasChargingComplete
          /\ dev'.lastDisconnectTime = dev.lastDisconnectTime]_vars

\* 2.0 V was read with the battery at 10 % and deep sleep disarmed already.
C27_Witness ==
    /\ pc = "battery"
    /\ dev.battery = "fault"
    /\ dev.gauge.mv = 2000
    /\ dev.batteryBefore = 10
    /\ dev.batteryPercent = FALLBACK_PERCENT

\* C28: a reading that computes to 0 % at more than 3.0 V and is more than
\* 20 points away from batteryPercent leaves batteryPercent as it was; a
\* reading that computes to 0 % below 3.0 V makes batteryPercent 0.
C28_AntiJitter ==
    (Measured /\ dev.newBatteryPercent = 0) =>
      /\ (dev.gauge.mv > 3000 /\ abs(0 - dev.batteryBefore) > JITTER_LIMIT)
           => dev.batteryPercent = dev.batteryBefore
      /\ dev.gauge.mv < 3000 => dev.batteryPercent = 0

\* 3.01 V was read with the battery at 80 %, and the 80 % stayed.
C28_Witness ==
    /\ Measured
    /\ dev.gauge.mv = 3010
    /\ dev.newBatteryPercent = 0
    /\ dev.batteryBefore = 80
    /\ dev.batteryPercent = 80

\* 2.9 V was read with the battery at 80 %, and the 0 % was stored.
C28_Accepted ==
    /\ Measured
    /\ dev.gauge.mv = 2900
    /\ dev.batteryBefore = 80
    /\ dev.batteryPercent = 0

----------------------------------------------------------------------------
(* Properties of the status endpoints *)

\* The state of the device: the tally and session flags, the configuration
\* in memory and in the flash store, the power state, the button state and
\* the timers.  The log of the step is no part of it.
DeviceState(d) ==
    [isPreview |-> d.isPreview, isProgram |-> d.isProgram,
     isRecording |-> d.isRecording, isStreaming |-> d.isStreaming,
     serverConnected |-> d.serverConnected, isConnected |-> d.isConnected,
     isRegistered |-> d.isRegistered, configMode |-> d.configMode,
     deviceName |-> d.deviceName, serverURL |-> d.serverURL,
     serverIP |-> d.serverIP, serverPort |-> d.serverPort,
     hostname |-> d.hostname, assignedSource |-> d.assignedSource,
     ledManuallyDisabled |-> d.ledManuallyDisabled, prefs |-> d.prefs,
     powerSaveMode |-> d.powerSaveMode, lowBatteryMode |-> d.lowBatteryMode,
     displayDimmed |-> d.displayDimmed, deepSleepEnabled |-> d.deepSleepEnabled,
     batteryPercent |-> d.batteryPercent, lastActivity |-> d.lastActivity,
     lastHeartbeatTime |-> d.lastHeartbeatTime, lastAnnounce |-> d.lastAnnounce,
     lastRegistrationAttempt |-> d.lastRegistrationAttempt,
     lastFetch |-> d.lastFetch, wasDisconnected |-> d.wasDisconnected,
     lastPowerStateUpdate |-> d.lastPowerStateUpdate,
     lastBatteryUpdate |-> d.lastBatteryUpdate,
     lastPowerUpdate |-> d.lastPowerUpdate,
     lastBtnActivity |-> d.lastBtnActivity,
     lastInitialActivity |-> d.lastInitialActivity,
     initialAwakePeriod |-> d.initialAwakePeriod,
     wasChargingComplete |-> d.wasChargingComplete,
     lastDisconnectTime |-> d.lastDisconnectTime,
     btnB_WaitingForDouble |-> d.btnB_WaitingForDouble,
     btnB_IsPressed |-> d.btnB_IsPressed, btnB_PressStart |-> d.btnB_PressStart,
     btnB_LongPressHandled |-> d.btnB_LongPressHandled,
     btnB_ClickCount |-> d.btnB_ClickCount, btnB_LastPress |-> d.btnB_LastPress,
     restart |-> d.restart, asleep |-> d.asleep]

\* The tally state a sent document reports
Reported(doc) ==
    IF doc.kind = "status"
    THEN [preview |-> doc.preview, program |-> doc.program,
          streaming |-> doc.streaming, recording |-> doc.recording,
          connected |-> doc.connected]
    ELSE doc.state

\* C29: serving GET /status or GET /api/device-info leaves the state of the
\* device as it was, is answered 200, and the document sent reports the
\* values isPreview, isProgram, isStreaming, isRecording and serverConnected
\* have in memory.
C29_StatusReadOnly ==
    [][(pc = "status" /\ dev'.op = "get")
       => /\ DeviceState(dev') = DeviceState(dev)
          /\ dev'.reply = HTTP_OK
          /\ Reported(dev'.response) =
               [preview |-> dev.isPreview, program |-> dev.isProgram,
                streaming |-> dev.isStreaming, recording |-> dev.isRecording,
                connected |-> dev.serverConnected]]_vars

\* GET /api/device-info was served on program, with the server connected.
C29_Witness ==
    /\ pc = "status"
    /\ dev.op = "get"
    /\ dev.req = GetDeviceInfo
    /\ dev.isProgram
    /\ dev.serverConnected
    /\ dev.response.state.program
    /\ dev.response.state.connected
    /\ ~dev.response.state.preview

----------------------------------------------------------------------------
(* Properties of the configuration store *)

\* The configuration in memory that loadConfig() assigns
LoadedFields(d) ==
    [serverIP |-> d.serverIP, serverPort |-> d.serverPort,
     deviceName |-> d.deviceName, assignedSource |-> d.assignedSource,
     hostname |-> d.hostname, ledManuallyDisabled |-> d.ledManuallyDisabled]

\* The store has no version tag, or one that is not CONFIG_VERSION
VersionMismatch(d) == PrefGet(d.prefs, "version", "") # CONFIG_VERSION

\* C30: a loadConfig() that finds no version tag in the store, or another
\* one than CONFIG_VERSION, returns false and leaves serverIP, serverPort,
\* deviceName, assignedSource, hostname and ledManuallyDisabled, and the
\* store, as they were.
C30_VersionMismatchLoadsNothing ==
    [][(pc = "config" /\ dev'.op = "loadConfig" /\ VersionMismatch(dev))
       => /\ ~loadConfigOk(dev)
          /\ LoadedFields(dev') = LoadedFields(dev)
          /\ dev'.prefs = dev.prefs]_vars

\* loadConfig() met the store of a firmware with version tag "1.0" and the
\* device kept its defaults.
C30_Witness ==
    /\ pc = "config"
    /\ dev.op = "loadConfig"
    /\ dev.prefs = OtherStore("1.0")
    /\ dev.deviceName = DEFAULT_DEVICE_NAME
    /\ dev.serverIP = ""
    /\ dev.serverPort = DEFAULT_SERVER_PORT
    /\ ~dev.ledManuallyDisabled

----------------------------------------------------------------------------
(* Properties of the heartbeat response *)

\* The last step was a sendHeartbeat() whose heartbeat was answered by hb
Answered(d) == d.op = "heartbeat" /\ d.req.kind = "answer" /\ d.sent # <<>>

\* The answer was a 200 with a body that parsed
GoodAnswer(hb) == hb.code = HTTP_OK /\ hb.body.t = "json"

\* C31 as stated: after a heartbeat answered 200 with a JSON body that has
\* neither a recording nor a streaming member, isRecording and isStreaming
\* are false.
C31_AbsentFlagsMeanFalse ==
    (/\ Answered(dev)
     /\ GoodAnswer(dev.req.hb)
     /\ dev.req.hb.body.doc.recording = Absent
     /\ dev.req.hb.body.doc.streaming = Absent)
        => (~dev.isRecording /\ ~dev.isStreaming)

\* What the code does with such an answer: isRecording and isStreaming are
\* what they were before the call.
C31_AbsentFlagsAreKept ==
    [][(/\ Answered(dev')
        /\ GoodAnswer(dev'.req.hb)
        /\ dev'.req.hb.body.doc.recording = Absent
        /\ dev'.req.hb.body.doc.streaming = Absent)
          => /\ dev'.isRecording = dev.isRecording
             /\ dev'.isStreaming = dev.isStreaming]_vars

\* The tally state and the source assignment
TallyState(d) ==
    [isPreview |-> d.isPreview, isProgram |-> d.isProgram,
     isRecording |-> d.isRecording, isStreaming |-> d.isStreaming,
     assignedSource |-> d.assignedSource]

\* C32: a heartbeat that got no answer, a 404, another HTTP code, or a 200
\* whose body is no JSON leaves isPreview, isProgram, isRecording,
\* isStreaming and assignedSource as they were before the call.
C32_FailedHeartbeatKeepsTally ==
    [][(Answered(dev') /\ ~GoodAnswer(dev'.req.hb))
          => TallyState(dev') = TallyState(dev)]_vars

\* C32, reached: a heartbeat that got no answer, on a device that was on
\* program and recording with a source assigned, and had the server
\* connected until then.
C32_Witness ==
    /\ Answered(dev)
    /\ dev.req.hb.code <= 0
    /\ ~dev.serverConnected
    /\ dev.isProgram
    /\ dev.isRecording
    /\ dev.assignedSource = "Cam 1"

----------------------------------------------------------------------------
(* Progress of the session *)

\* A registration request of the current iteration was not answered 200
RegistrationRefused == \E e \in Sent : IsRegister(e) /\ e.code # HTTP_OK

\* From here on WiFi is connected, a server address is set and every
\* registration request is answered 200
ServerInReach == wifi /\ dev.serverURL # NoUrl /\ ~RegistrationRefused

\* The device, registered, has sent a heartbeat in this iteration
HeartbeatSent == \E e \in Sent : IsHeartbeat(e) /\ e.regBefore

\* C33: if from some moment on WiFi stays connected, a server address is set
\* and the server answers every registration request with 200, the device
\* becomes registered and sends heartbeats again and again, whatever state
\* it was in at that moment.
C33_EventuallyRegistered == (<>[]ServerInReach) => ([]<>HeartbeatSent)

\* C33, reached: a heartbeat was answered 404, and the device registered
\* again and sent the next heartbeat.
C33_Witness ==
    /\ wifi
    /\ dev.isRegistered
    /\ \E e \in Sent : IsRegister(e) /\ e.after404 /\ e.code = HTTP_OK
    /\ \E e \in Sent : IsHeartbeat(e) /\ e.regBefore

----------------------------------------------------------------------------
(* Properties of the double click window *)

\* The instants at which the user pressed button B
PressInstants(g) == {g[i][1] : i \in DOMAIN g}

\* Every two presses of the gesture are more than DOUBLE_CLICK_TIME apart
PressesApart(g) ==
    \A x, y \in PressInstants(g) : x < y => y - x > DOUBLE_CLICK_TIME

\* C34 as stated: two presses of button B whose instants are more than
\* DOUBLE_CLICK_TIME apart never fire the double click, however the calls
\* of handleButtonB() fall.
C34_ApartIsNoDoubleClick ==
    PressesApart(Gestures[dev.gesture]) => dev.clicks.double = 0

\* What holds: while every iteration of loop() reaches handleButtonB() (the
\* WiFi link stays up) such presses fire no double click.
C34_NoDoubleClickWhileLinkUp ==
    (PressesApart(Gestures[dev.gesture]) /\ ~dev.wasDisconnected /\ ~dev.restored)
        => ~dev.doubleClicked

----------------------------------------------------------------------------
(* Properties of the ESP32-1732S019 variant *)

\* C35 as stated: once WiFi stays connected and the server answers every
\* registration request with 200, a device whose registration failed
\* registers again, without a WiFi drop or a reboot: it is registered from
\* some moment on.
C35_RegistrationRetried == (<>[]ServerInReach) => (<>[]dev.isRegistered)

\* The configuration and the state a push may write
U_Pushed(d) ==
    [deviceName |-> d.deviceName, assignedSource |-> d.assignedSource,
     currentStatus |-> d.currentStatus, prefs |-> d.prefs]

\* C36 as stated: a push answered 400 leaves deviceName, assignedSource,
\* currentStatus and the stored configuration as they were.
C36_RejectedPushDiscarded ==
    [][(dev'.op = "tally" /\ dev'.reply = HTTP_BAD_REQUEST)
          => U_Pushed(dev') = U_Pushed(dev)]_vars

\* What holds: a push answered 400 leaves currentStatus as it was, and
\* leaves everything as it was if it had no body or one that is no JSON.
C36_RejectedPushKeepsStatus ==
    [][(dev'.op = "tally" /\ dev'.reply = HTTP_BAD_REQUEST)
          => /\ dev'.currentStatus = dev.currentStatus
             /\ dev'.req.body.t # "json" => U_Pushed(dev') = U_Pushed(dev)]_vars

----------------------------------------------------------------------------
(* Properties of the power state as the firmware drives it *)

\* C37: in every state reachable after initPowerManagement(), powerSaveMode,
\* displayDimmed and deepSleepEnabled are false and esp_deep_sleep_start()
\* has not been called.
C37_PowerSavingNeverActive ==
    /\ ~dev.powerSaveMode
    /\ ~dev.displayDimmed
    /\ ~dev.deepSleepEnabled
    /\ ~dev.asleep

\* The stability check has run on a device in low battery mode, after the
\* initial awake period.
C37_Witness ==
    /\ dev.op = "performStabilityCheck"
    /\ dev.path = "checked"
    /\ dev.lowBatteryMode
    /\ now > INITIAL_AWAKE_PERIOD

----------------------------------------------------------------------------
(* Properties of the LED *)

\* C38: while ledManuallyDisabled is set the LED is not lit, and when
\* updateLED() has lit the LED solid the device is program, connected to
\* the server and to WiFi, and not in config mode.
C38_DisabledLedIsOff ==
    /\ dev.ledManuallyDisabled => ~dev.led
    /\ dev.path = "solid"
         => (dev.led /\ dev.isProgram /\ dev.serverConnected /\ wifi
             /\ ~dev.configMode /\ ~dev.ledManuallyDisabled)

\* The LED block of loop() has run on a program device whose preference is
\* set, after a push made it program.
C38_Witness ==
    /\ dev.op = "updateLED"
    /\ dev.path = "disabled"
    /\ dev.ledManuallyDisabled
    /\ dev.isProgram
    /\ dev.serverConnected
    /\ wifi
    /\ now > 0

\* The LED is lit solid.
C38_WitnessSolid ==
    /\ dev.op = "updateLED"
    /\ dev.path = "solid"
    /\ dev.led

----------------------------------------------------------------------------
(* Properties of the stored configuration *)

\* The device that boots with the store of d and calls loadConfig()
Reloaded(d) == loadConfig(InitDev(d.prefs))

\* C39: after a handler has called saveConfig(), a loadConfig() on the
\* store returns true and gives serverIP, serverPort, deviceName,
\* assignedSource, hostname and ledManuallyDisabled the saved values; after
\* factoryReset() has cleared the store, loadConfig() returns false.
C39_ConfigRoundTrip ==
    /\ dev.op = "config"
         => /\ loadConfigOk(InitDev(dev.prefs))
            /\ Reloaded(dev).serverIP = dev.serverIP
            /\ Reloaded(dev).serverPort = dev.serverPort
            /\ Reloaded(dev).deviceName = dev.deviceName
            /\ Reloaded(dev).assignedSource = dev.assignedSource
            /\ Reloaded(dev).hostname = dev.hostname
            /\ Reloaded(dev).ledManuallyDisabled = dev.ledManuallyDisabled
    /\ dev.op = "factoryReset" => ~loadConfigOk(InitDev(dev.prefs))

\* A form has saved a configuration in which no field has the value a
\* device without store boots with.
C39_Witness ==
    /\ dev.op = "config"
    /\ dev.serverIP = "10.0.0.6"
    /\ dev.serverPort = 3006
    /\ dev.deviceName = "Stick 2"
    /\ dev.assignedSource = "Cam 2"
    /\ dev.ledManuallyDisabled

\* factoryReset() has cleared a store that held a configuration.
C39_WitnessReset ==
    /\ dev.op = "factoryReset"
    /\ dev.ledManuallyDisabled
    /\ dev.prefs = EmptyPrefs

----------------------------------------------------------------------------
(* Properties of the tally state across a WiFi loss *)

TallyFlags(d) == <<d.isProgram, d.isPreview, d.isRecording, d.isStreaming>>

LinkFlags(d) == <<TallyFlags(d), d.isConnected>>

\* The requests this step has sent: the log is started anew by setup() and
\* by the head of loop(), and added to by the rest of the iteration
NewlySent ==
    LET k == IF pc \in {"client", "tail"} THEN Len(dev.sent) ELSE 0
    IN  {dev'.sent[i] : i \in (k + 1)..Len(dev'.sent)}

\* C40: the link-down branch of loop(), the loss of the link and its return
\* leave isProgram, isPreview, isRecording, isStreaming and isConnected as
\* they were; and the tally state changes only in a step that serves a web
\* request, gets a heartbeat answered 200, or reboots the device.
C40_LinkLossKeepsTally ==
    [][/\ (dev'.op = "loop" /\ dev'.path = "down")
            => LinkFlags(dev') = LinkFlags(dev)
       /\ dev'.op \in {"link-down", "link-up"}
            => LinkFlags(dev') = LinkFlags(dev)
       /\ TallyFlags(dev') # TallyFlags(dev)
            => \/ pc = "client"
               \/ pc' = "boot"
               \/ \E e \in NewlySent : IsHeartbeat(e) /\ e.code = HTTP_OK]_vars

\* The link has returned to a device that went through the link-down branch
\* while it was program and connected, and it still is.
C40_Witness ==
    /\ dev.op = "link-up"
    /\ wifi
    /\ dev.wasDisconnected
    /\ dev.isProgram
    /\ dev.isConnected
    /\ ~dev.isRegistered

============================================================================
